---- MODULE Spec2Model ----
(***************************************************************************)
(* Model of the closed-loop decision engine of the ELONA agent.            *)
(*                                                                         *)
(* The parts of the program are modelled each with its own specification,  *)
(* because they run on state they do not share:                            *)
(*   SpecChat     ChatService: the auto-mode timer, its cycles, the        *)
(*                pause/resume commands, the mode listener, start, stop.   *)
(*   SpecMonitor  MemeAgentInfluencer: market monitoring and its trades.   *)
(*   SpecPoster   MemeAgentInfluencer: scheduled tweets with               *)
(*                postTweetWithRetry, and the runAutonomousMode loop.      *)
(*   SpecCache    JupiterPriceV2Service: the cached market-data            *)
(*                operations.                                              *)
(*   SpecLevel    JupiterPriceV2Service.calculateConfidenceLevel.          *)
(*   SpecProvider ChatService.getMarketData and the token providers.       *)
(*   SpecMerge    JupiterPriceV2Service: the numeric fields of a snapshot. *)
(*   SpecStartup  main: validateEnvironment and the start of a mode.       *)
(*   SpecSwap     swapSolToToken and its guards.                           *)
(*   SpecInit     MemeAgentInfluencer.initialize, its steps and cleanup.   *)
(*   SpecMode     selectMode and the mode prompt of startMemeAgent.        *)
(*   SpecCmd      ChatService: the commands registered for the modes.      *)
(***************************************************************************)
EXTENDS Integers, Sequences, FiniteSets, TLC

(***************************************************************************)
(* Bounds of the model.                                                    *)
(***************************************************************************)
MaxTimers == 2      \* timers setInterval may create in one run (ChatService)
MaxCycles == 2      \* timer callbacks that may start in one run (ChatService)

MaxMonInFlight == 1 \* monitorMarket calls in flight at once (market monitoring)

MaxTweetInFlight == 2 \* scheduleTweets callbacks in flight at once

MaxClock == 5       \* how many times the clock advances
ClockStep == 150    \* seconds the clock advances at a time

NoTimer == 0        \* autoModeInterval = null

\* JupiterPriceV2Service.CACHE_TTL, in seconds.
CACHE_TTL == 300

\* postTweetWithRetry: `retries = 3` and `baseWaitTime = 5000`.
DefaultRetries == 3
baseWaitTime == 5000

\* CONFIG.SOLANA.TRADING.MIN_CONFIDENCE, in tenths (0.7).
MIN_CONFIDENCE == 7
\* CONFIG.SOLANA.TRADING.BASE_AMOUNT and CONFIG.SOLANA.TRADING.SLIPPAGE (in
\* basis points), the amount of a trade at confidence 1 and its slippage.
BASE_AMOUNT == 2
SLIPPAGE == 100

Modes == {"idle", "chat", "auto"}
Actions == {"BUY", "SELL", "HOLD"}

VARIABLES
    \* ---- ChatService (src/src/services/chat/ChatService.js) ----
    mode,              \* ModeManager's current mode
    isRunning,         \* ChatService.isRunning
    exited,            \* process.exit() has been called
    autoModeInterval,  \* ChatService.autoModeInterval: a timer id or NoTimer
    timers,            \* the timers setInterval created and nobody cleared
    nextTimer,         \* next timer id setInterval hands out
    cycles,            \* the interval callbacks started so far, by id
    history,           \* ChatHistoryManager: the recorded messages
    rlClosed,          \* the readline interface has been closed
    stopCalls,         \* how many times stop() ran its shutdown sequence
    \* ---- MemeAgentInfluencer market monitoring (src/src/index.ts) ----
    monPhase,          \* "init", "first" (awaiting the first run) or "timer"
    monCycles,         \* the monitorMarket calls in flight
    \* ---- MemeAgentInfluencer tweets and autonomous loop (src/src/index.ts) ----
    tweetTimer,        \* scheduleTweets has called setInterval
    tweetCycles,       \* the scheduleTweets callbacks, by slot
    autoPc,            \* runAutonomousMode: "off", "stream" or "sleep"
    autoThrew,         \* a cycle of runAutonomousMode threw
    agentExited,       \* process.exit() has been called in this process
    \* ---- JupiterPriceV2Service (src/src/index.ts) ----
    now,               \* the time, in seconds
    clock,             \* how many times the clock has advanced
    store,             \* the cache's backing store: an entry or NoEntry per key
    storeUp,           \* the backing store answers (else its calls throw)
    getJustFailed,     \* a get of the backing store has failed at this instant
    requests,          \* the market-data call of each caller
    levelCall,         \* the last call of calculateConfidenceLevel
    \* ---- ChatService.getMarketData and the token providers ----
    chatTokenProvider, \* ChatService.tokenProvider: constructed, given, address
    priceTokenAddress, \* address of JupiterPriceV2Service.tokenProvider
    metricsCache,      \* per symbol, the address whose data `metrics:` holds
    marketCalls,       \* the getMarketData call of each chat command
    \* ---- JupiterPriceV2Service: building a snapshot ----
    mergeCall,         \* the last snapshot built from fetched token data
    \* ---- main (src/src/index.ts) ----
    startupPc,         \* where main is: "boot", "validate", ..., "exited"
    envMissing,        \* the required environment variables that are not set
    servicesInitialized, \* initializeServices has returned its services
    constructed,       \* the services constructed outside initializeServices
    startedMode,       \* the mode main has started: "none", "chat" or "auto"
    configError,       \* validateEnvironment has thrown
    exitCode,          \* the code given to process.exit, -1 before it
    \* ---- MemeAgentInfluencer.cleanup (src/src/index.ts) ----
    cleanupDone,       \* cleanup() has completed
    \* ---- swapSolToToken (src/unnamed/part_000) ----
    swapCall,          \* the call of swapSolToToken: its inputs and progress
    \* ---- MemeAgentInfluencer.initialize (src/src/index.ts) ----
    agentInit,         \* the agent: isInitialized, and its call of initialize
    \* ---- selectMode and the prompt of startMemeAgent (src/src/index.ts) ----
    modePrompt,        \* the mode prompt: who asked, what was typed, the result
    \* ---- ChatService: the commands of the modes ----
    modeConfigs,       \* ModeManager: per mode, the commands of its config
    currentMode,       \* ModeManager.getCurrentMode()
    chatBuilt,         \* the ChatService constructor has run
    lastAdd            \* the last call of addCommands: mode, commands before

chatVars == <<mode, isRunning, exited, autoModeInterval, timers, nextTimer,
              cycles, history, rlClosed, stopCalls>>

monitorVars == <<monPhase, monCycles>>

posterVars == <<tweetTimer, tweetCycles, autoPc, autoThrew, agentExited>>

cacheVars == <<now, clock, store, storeUp, getJustFailed, requests>>

levelVars == <<levelCall>>

providerVars ==
    <<chatTokenProvider, priceTokenAddress, metricsCache, marketCalls>>

mergeVars == <<mergeCall>>

startupVars ==
    <<startupPc, envMissing, servicesInitialized, constructed, startedMode,
      configError, exitCode>>

agentVars == <<cleanupDone>>

swapVars == <<swapCall>>

initVars == <<agentInit>>

modeVars == <<modePrompt>>

cmdVars == <<modeConfigs, currentMode, chatBuilt, lastAdd>>

vars == <<chatVars, monitorVars, posterVars, cacheVars, levelVars,
          providerVars, mergeVars, startupVars, agentVars, swapVars,
          initVars, modeVars, cmdVars>>

(***************************************************************************)
(* ChatService                                                             *)
(***************************************************************************)
\* The stages at which an interval callback is suspended (its awaits).
InFlightPcs == {"fetch", "analyze", "execute"}

InFlight == {c \in DOMAIN cycles : cycles[c].pc \in InFlightPcs}

\* setInterval(callback, 10000): a fresh timer that is live until cleared.
setInterval == nextTimer

\* clearInterval(t): the timer stops firing; callbacks already started run on.
clearInterval(t) == timers \ {t}

\* recordMessage(role, content): system messages are only logged. Every
\* entry also carries the cycle that wrote it, to tell the cycles apart.
recordMessage(h, role, content, c) ==
    IF role = "system" THEN h
    ELSE Append(h, [role |-> role, content |-> content, cycle |-> c])

InitChat ==
    /\ mode = "idle"
    /\ isRunning = FALSE
    /\ exited = FALSE
    /\ autoModeInterval = NoTimer
    /\ timers = {}
    /\ nextTimer = 1
    /\ cycles = <<>>
    /\ history = <<>>
    /\ rlClosed = FALSE
    /\ stopCalls = 0

\* ChatService.start(): input lines are handled from now on.
start ==
    /\ ~exited
    /\ ~isRunning
    /\ isRunning' = TRUE
    /\ UNCHANGED <<mode, exited, autoModeInterval, timers, nextTimer, cycles,
                   history, rlClosed, stopCalls>>

\* ChatService.startAutoMode(): clears the timer it knows of and creates one.
startAutoMode ==
    /\ nextTimer <= MaxTimers
    /\ timers' = (IF autoModeInterval # NoTimer
                    THEN clearInterval(autoModeInterval)
                    ELSE timers) \cup {setInterval}
    /\ autoModeInterval' = setInterval
    /\ nextTimer' = nextTimer + 1

\* ModeManager's transition rules: enterChat from Idle or Auto, enterAuto from
\* Idle or Chat.
CanEnter(newMode) ==
    \/ newMode = "chat" /\ mode \in {"idle", "auto"}
    \/ newMode = "auto" /\ mode \in {"idle", "chat"}

\* A listener that would leave the timer alone when the mode is not auto.
modeChangedKeepsTimer(newMode) ==
    /\ ~exited
    /\ isRunning
    /\ CanEnter(newMode)
    /\ mode' = newMode
    /\ IF newMode = "auto"
         THEN startAutoMode
         ELSE UNCHANGED <<timers, autoModeInterval, nextTimer>>
    /\ UNCHANGED <<isRunning, exited, cycles, history, rlClosed, stopCalls>>

\* The 'modeChanged' listener of setupEventListeners, run when the mode
\* manager switches to newMode on a command typed by the user.
modeChanged(newMode) ==
    /\ ~exited
    /\ isRunning
    /\ CanEnter(newMode)
    /\ mode' = newMode
    /\ IF newMode = "auto"
         THEN startAutoMode
         ELSE IF autoModeInterval # NoTimer
                THEN /\ timers' = clearInterval(autoModeInterval)
                     /\ autoModeInterval' = NoTimer
                     /\ UNCHANGED nextTimer
                ELSE UNCHANGED <<timers, autoModeInterval, nextTimer>>
    /\ UNCHANGED <<isRunning, exited, cycles, history, rlClosed, stopCalls>>

\* A pause that would clear the timer and keep its handle.
pauseKeepsHandle ==
    /\ ~exited
    /\ isRunning
    /\ mode = "auto"
    /\ IF autoModeInterval # NoTimer
         THEN /\ timers' = clearInterval(autoModeInterval)
              /\ UNCHANGED autoModeInterval
         ELSE UNCHANGED <<timers, autoModeInterval>>
    /\ UNCHANGED <<mode, isRunning, exited, nextTimer, cycles, history,
                   rlClosed, stopCalls>>

\* The auto mode's 'pause' command.
pause ==
    /\ ~exited
    /\ isRunning
    /\ mode = "auto"
    /\ IF autoModeInterval # NoTimer
         THEN /\ timers' = clearInterval(autoModeInterval)
              /\ autoModeInterval' = NoTimer
         ELSE UNCHANGED <<timers, autoModeInterval>>
    /\ UNCHANGED <<mode, isRunning, exited, nextTimer, cycles, history,
                   rlClosed, stopCalls>>

\* A resume that would not look at the timer it holds.
resumeUnguarded ==
    /\ ~exited
    /\ isRunning
    /\ mode = "auto"
    /\ startAutoMode
    /\ UNCHANGED <<mode, isRunning, exited, cycles, history, rlClosed,
                   stopCalls>>

\* The auto mode's 'resume' command.
resume ==
    /\ ~exited
    /\ isRunning
    /\ mode = "auto"
    /\ IF autoModeInterval = NoTimer
         THEN startAutoMode
         ELSE UNCHANGED <<timers, autoModeInterval, nextTimer>>
    /\ UNCHANGED <<mode, isRunning, exited, cycles, history, rlClosed,
                   stopCalls>>

\* A live timer fires: the interval callback starts and suspends at
\* `await this.aiService.getMarketMetrics()`. Nothing in the callback looks
\* at the callbacks still running.
tick(t) ==
    /\ ~exited
    /\ t \in timers
    /\ Len(cycles) < MaxCycles
    /\ cycles' = Append(cycles, [timer |-> t, pc |-> "fetch", action |-> "HOLD",
                                 fetched |-> "pending", analysed |-> "pending"])
    /\ UNCHANGED <<mode, isRunning, exited, autoModeInterval, timers,
                   nextTimer, history, rlClosed, stopCalls>>

\* getMarketMetrics() settles. got: "data", "none" (a falsy value) or "throw".
FetchOutcomes == {"data", "none", "throw"}

\* A callback without the early return on missing market data.
fetchDoneNoGuard(c, got) ==
    /\ ~exited
    /\ c \in DOMAIN cycles
    /\ cycles[c].pc = "fetch"
    /\ cycles' = [cycles EXCEPT
                     ![c].pc = CASE got \in {"data", "none"} -> "analyze"
                                 [] got = "throw"           -> "error",
                     ![c].fetched = got]
    /\ UNCHANGED <<mode, isRunning, exited, autoModeInterval, timers,
                   nextTimer, history, rlClosed, stopCalls>>

fetchDone(c, got) ==
    /\ ~exited
    /\ c \in DOMAIN cycles
    /\ cycles[c].pc = "fetch"
    /\ cycles' = [cycles EXCEPT
                     ![c].pc = CASE got = "data"  -> "analyze"
                                 [] got = "none"  -> "noData"
                                 [] got = "throw" -> "error",
                     ![c].fetched = got]
    /\ UNCHANGED <<mode, isRunning, exited, autoModeInterval, timers,
                   nextTimer, history, rlClosed, stopCalls>>

\* A callback without the early return on a missing analysis.
analyzeDoneNoGuard(c, got, action) ==
    /\ ~exited
    /\ c \in DOMAIN cycles
    /\ cycles[c].pc = "analyze"
    /\ cycles' = [cycles EXCEPT
                     ![c].pc = CASE got \in {"ok", "none"} -> "execute"
                                 [] OTHER                 -> "error",
                     ![c].analysed = IF got \in {"ok", "none"} THEN got ELSE "throw",
                     ![c].action = IF got = "ok" THEN action ELSE @]
    /\ UNCHANGED <<mode, isRunning, exited, autoModeInterval, timers,
                   nextTimer, history, rlClosed, stopCalls>>

\* analyzeMarket(marketData) settles. got: "ok" (a complete analysis),
\* "none" (no analysis or no metrics), "noConfidence", "noOnChainData" (both
\* throw inside the try) or "throw". A complete analysis goes on to
\* `await this.executeAutoAction(serviceAnalysis)`.
AnalyzeOutcomes == {"ok", "none", "noConfidence", "noOnChainData", "throw"}
analyzeDone(c, got, action) ==
    /\ ~exited
    /\ c \in DOMAIN cycles
    /\ cycles[c].pc = "analyze"
    /\ cycles' = [cycles EXCEPT
                     ![c].pc = CASE got = "ok"   -> "execute"
                                 [] got = "none" -> "noAnalysis"
                                 [] OTHER        -> "error",
                     ![c].analysed = IF got \in {"ok", "none"} THEN got ELSE "throw",
                     ![c].action = IF got = "ok" THEN action ELSE @]
    /\ UNCHANGED <<mode, isRunning, exited, autoModeInterval, timers,
                   nextTimer, history, rlClosed, stopCalls>>

\* executeAutoAction() returns and the callback records the action and its
\* result in the history.
executeDone(c) ==
    /\ ~exited
    /\ c \in DOMAIN cycles
    /\ cycles[c].pc = "execute"
    /\ cycles' = [cycles EXCEPT ![c].pc = "done"]
    /\ history' = recordMessage(
                    recordMessage(history, "assistant",
                                  <<"Executed action", cycles[c].action>>, c),
                    "assistant", <<"Result", cycles[c].action>>, c)
    /\ UNCHANGED <<mode, isRunning, exited, autoModeInterval, timers,
                   nextTimer, rlClosed, stopCalls>>

\* A stop() that would return without ending the process.
stopNoExit ==
    /\ ~exited
    /\ isRunning' = FALSE
    /\ IF autoModeInterval # NoTimer
         THEN /\ timers' = clearInterval(autoModeInterval)
              /\ autoModeInterval' = NoTimer
         ELSE UNCHANGED <<timers, autoModeInterval>>
    /\ mode' = "idle"
    /\ rlClosed' = TRUE
    /\ stopCalls' = 1
    /\ UNCHANGED <<exited, nextTimer, cycles, history>>

\* ChatService.stop(): clears the timer, stops the mode manager, closes the
\* readline interface and ends the process. Closing an open readline
\* interface emits 'close' at once, and the 'close' handler that start()
\* registered calls stop() again: that nested call runs the sequence a second
\* time and is the one that reaches process.exit(0).
stop ==
    /\ ~exited
    /\ isRunning' = FALSE
    /\ IF autoModeInterval # NoTimer
         THEN /\ timers' = clearInterval(autoModeInterval)
              /\ autoModeInterval' = NoTimer
         ELSE UNCHANGED <<timers, autoModeInterval>>
    /\ mode' = "idle"
    /\ rlClosed' = TRUE
    /\ stopCalls' = stopCalls + (IF isRunning /\ ~rlClosed THEN 2 ELSE 1)
    /\ exited' = TRUE
    /\ UNCHANGED <<nextTimer, cycles, history>>

ChatFrame ==
    UNCHANGED <<monitorVars, posterVars, cacheVars, levelVars, providerVars,
                mergeVars, startupVars, agentVars, swapVars, initVars,
                modeVars, cmdVars>>

NextChat ==
    \/ start /\ ChatFrame
    \/ \E m \in Modes : modeChanged(m) /\ ChatFrame
    \/ pause /\ ChatFrame
    \/ resume /\ ChatFrame
    \/ \E t \in timers : tick(t) /\ ChatFrame
    \/ \E c \in DOMAIN cycles, got \in FetchOutcomes :
          fetchDone(c, got) /\ ChatFrame
    \/ \E c \in DOMAIN cycles, got \in AnalyzeOutcomes, a \in Actions :
          analyzeDone(c, got, a) /\ ChatFrame
    \/ \E c \in DOMAIN cycles : executeDone(c) /\ ChatFrame
    \/ stop /\ ChatFrame

(***************************************************************************)
(* MemeAgentInfluencer: market monitoring                                  *)
(***************************************************************************)
\* A JavaScript value that may be undefined: u says it is, v is the value.
Undef(dummy) == [u |-> TRUE, v |-> dummy]
Val(x) == [u |-> FALSE, v |-> x]

\* `x || d` for a number, a boolean and a string: d when x is falsy.
NumOr(x, d) == IF x.u \/ x.v = 0 THEN d ELSE x.v
BoolOr(x, d) == IF x.u \/ x.v = FALSE THEN d ELSE x.v
StrOr(x, d) == IF x.u \/ x.v = "" THEN d ELSE x.v

\* The confidences the analysis may report, in tenths: below, at and above
\* MIN_CONFIDENCE, and one above 1.
ConfValues == {0, 4, 7, 9, 15}
\* volatility.adjustmentFactor of the market data, read as the momentum.
Momenta == {-1, 0, 1}

\* What aiService.analyzeMarket may answer: each field present or not.
AiAnalyses ==
    [shouldTrade : {Undef(FALSE), Val(TRUE), Val(FALSE)},
     confidence : {Undef(0)} \cup {Val(v) : v \in ConfValues},
     action : {Undef("")} \cup {Val(a) : a \in Actions}]

\* The object analyzeMarket returns in its catch block.
FallbackAnalysis ==
    [shouldTrade |-> FALSE, confidence |-> 0, action |-> "HOLD", momentum |-> 0]

\* The object analyzeMarket returns from the market data and the AI's answer.
analyzeMarket(momentum, ai) ==
    [shouldTrade |-> BoolOr(ai.shouldTrade, FALSE),
     confidence |-> NumOr(ai.confidence, 0),
     action |-> StrOr(ai.action, "HOLD"),
     momentum |-> NumOr(Val(momentum), 0)]

\* A gate that would not look at the confidence.
TradeGateNoConfidence(analysis) == analysis.shouldTrade

\* The condition under which monitorMarket calls executeTrade.
TradeGate(analysis) ==
    analysis.shouldTrade /\ analysis.confidence > MIN_CONFIDENCE

\* executeTrade's first two arguments to the trade sink.
TradeFrom(analysis) == IF analysis.action = "BUY" THEN "SOL" ELSE "TOKEN"
TradeTo(analysis) == IF analysis.action = "BUY" THEN "TOKEN" ELSE "SOL"

\* An amount that would not follow the confidence.
calculateTradeAmountFixed(analysis) == BASE_AMOUNT

\* calculateTradeAmount(analysis), executeTrade's third argument. The
\* confidence is in tenths, and so is the amount.
calculateTradeAmount(analysis) == BASE_AMOUNT * analysis.confidence

\* The four arguments executeTrade hands to tradingService.executeTrade.
executeTrade(analysis) ==
    [from |-> TradeFrom(analysis), to |-> TradeTo(analysis),
     amount |-> calculateTradeAmount(analysis), slippage |-> SLIPPAGE]

NoTrade == [from |-> "", to |-> "", amount |-> 0, slippage |-> 0]

NewMonCycle(first) ==
    [pc |-> "fetch", first |-> first, momentum |-> 0,
     fetched |-> "pending", analysed |-> "pending",
     analysis |-> FallbackAnalysis, trade |-> NoTrade]

Remove(seq, i) == SubSeq(seq, 1, i - 1) \o SubSeq(seq, i + 1, Len(seq))

InitMonitor ==
    /\ monPhase = "init"
    /\ monCycles = <<>>

\* startMarketMonitoring(): `await monitorMarket()`, the first run.
startMarketMonitoring ==
    /\ monPhase = "init"
    /\ monPhase' = "first"
    /\ monCycles' = Append(monCycles, NewMonCycle(TRUE))

\* The timer of setInterval(monitorMarket, ...) fires.
monitorTick ==
    /\ monPhase = "timer"
    /\ Len(monCycles) < MaxMonInFlight
    /\ monCycles' = Append(monCycles, NewMonCycle(FALSE))
    /\ UNCHANGED monPhase

\* tradingService.getMarketData settles inside analyzeMarket. Without data
\* (a falsy value or a throw) analyzeMarket returns its fallback object.
monitorFetchDone(c, got, momentum) ==
    /\ c \in DOMAIN monCycles
    /\ monCycles[c].pc = "fetch"
    /\ monCycles' = [monCycles EXCEPT
                        ![c].pc = IF got = "data" THEN "ai" ELSE "decided",
                        ![c].momentum = IF got = "data" THEN momentum ELSE @,
                        ![c].fetched = got,
                        ![c].analysis = FallbackAnalysis]
    /\ UNCHANGED monPhase

\* aiService.analyzeMarket settles and analyzeMarket returns: the analysis
\* built from the answer, or the fallback object when the call threw.
monitorAiDone(c, threw, ai) ==
    /\ c \in DOMAIN monCycles
    /\ monCycles[c].pc = "ai"
    /\ monCycles' = [monCycles EXCEPT
                        ![c].pc = "decided",
                        ![c].analysed = IF threw THEN "throw" ELSE "ok",
                        ![c].analysis =
                            IF threw THEN FallbackAnalysis
                            ELSE analyzeMarket(monCycles[c].momentum, ai)]
    /\ UNCHANGED monPhase

\* monitorMarket continues with the analysis: it calls executeTrade, which
\* hands the swap to the trade sink, or it does nothing.
monitorGate(c) ==
    /\ c \in DOMAIN monCycles
    /\ monCycles[c].pc = "decided"
    /\ monCycles' =
          IF TradeGate(monCycles[c].analysis)
            THEN [monCycles EXCEPT
                    ![c].pc = "trade",
                    ![c].trade = executeTrade(monCycles[c].analysis)]
            ELSE [monCycles EXCEPT ![c].pc = "held"]
    /\ UNCHANGED monPhase

\* tradingService.executeTrade settles; a throw is caught and logged.
monitorTradeDone(c, ok) ==
    /\ c \in DOMAIN monCycles
    /\ monCycles[c].pc = "trade"
    /\ monCycles' = [monCycles EXCEPT
                        ![c].pc = IF ok THEN "traded" ELSE "tradeFailed"]
    /\ UNCHANGED monPhase

\* The promise of a monitorMarket call resolves: after the first call
\* startMarketMonitoring goes on to setInterval.
MonitorEndPcs == {"held", "traded", "tradeFailed"}
monitorReturn(c) ==
    /\ c \in DOMAIN monCycles
    /\ monCycles[c].pc \in MonitorEndPcs
    /\ monCycles' = Remove(monCycles, c)
    /\ monPhase' = IF monCycles[c].first THEN "timer" ELSE monPhase

\* The stages of a monitorMarket call at which the trade sink was called.
TradePcs == {"trade", "traded", "tradeFailed"}

MonitorFrame ==
    UNCHANGED <<chatVars, posterVars, cacheVars, levelVars, providerVars,
                mergeVars, startupVars, agentVars, swapVars, initVars,
                modeVars, cmdVars>>

NextMonitor ==
    \/ startMarketMonitoring /\ MonitorFrame
    \/ monitorTick /\ MonitorFrame
    \/ \E c \in DOMAIN monCycles, got \in FetchOutcomes, m \in Momenta :
          monitorFetchDone(c, got, m) /\ MonitorFrame
    \/ \E c \in DOMAIN monCycles, threw \in BOOLEAN, ai \in AiAnalyses :
          monitorAiDone(c, threw, ai) /\ MonitorFrame
    \/ \E c \in DOMAIN monCycles : monitorGate(c) /\ MonitorFrame
    \/ \E c \in DOMAIN monCycles, ok \in BOOLEAN :
          monitorTradeDone(c, ok) /\ MonitorFrame
    \/ \E c \in DOMAIN monCycles : monitorReturn(c) /\ MonitorFrame

(***************************************************************************)
(* MemeAgentInfluencer: scheduled tweets, postTweetWithRetry and the        *)
(* runAutonomousMode loop                                                   *)
(***************************************************************************)
TweetSlots == 1..MaxTweetInFlight

IdleTweet ==
    [pc |-> "idle", i |-> 0, attempts |-> 0, published |-> 0,
     delays |-> <<>>, logged |-> <<>>]

InitPoster ==
    /\ tweetTimer = FALSE
    /\ tweetCycles = [c \in TweetSlots |-> IdleTweet]
    /\ autoPc = "off"
    /\ autoThrew = FALSE
    /\ agentExited = FALSE

\* scheduleTweets(interval): setInterval of the tweet callback.
scheduleTweets ==
    /\ ~agentExited
    /\ ~tweetTimer
    /\ tweetTimer' = TRUE
    /\ UNCHANGED <<tweetCycles, autoPc, autoThrew, agentExited>>

\* The tweet timer fires: the callback awaits tradingService.getMarketData.
tweetTick(c) ==
    /\ ~agentExited
    /\ tweetTimer
    /\ tweetCycles[c].pc = "idle"
    /\ tweetCycles' = [tweetCycles EXCEPT ![c].pc = "marketData"]
    /\ UNCHANGED <<tweetTimer, autoPc, autoThrew, agentExited>>

\* getMarketData settles: with data postAITweet is called and awaits
\* generateTweetContent; a throw goes to the callback's catch.
tweetDataDone(c, ok) ==
    /\ ~agentExited
    /\ tweetCycles[c].pc = "marketData"
    /\ tweetCycles' = [tweetCycles EXCEPT
                          ![c].pc = IF ok THEN "generate" ELSE "threw"]
    /\ UNCHANGED <<tweetTimer, autoPc, autoThrew, agentExited>>

\* A loop that would run once more than `retries` times.
LoopContinuesOffByOne(i, retries) == i <= retries

\* The loop condition of postTweetWithRetry: `i < retries`.
LoopContinues(i, retries) == i < retries

\* generateTweetContent settles: with content postTweetWithRetry(content)
\* starts its loop at i = 0; a throw is rethrown by postAITweet.
tweetGenerateDone(c, ok) ==
    /\ ~agentExited
    /\ tweetCycles[c].pc = "generate"
    /\ tweetCycles' = [tweetCycles EXCEPT
                          ![c].pc = IF ~ok THEN "threw"
                                    ELSE IF LoopContinues(0, DefaultRetries)
                                           THEN "attempt" ELSE "exhausted",
                          ![c].i = 0]
    /\ UNCHANGED <<tweetTimer, autoPc, autoThrew, agentExited>>

\* A wait that would not grow with the attempts.
RetryDelayConstant(i) == baseWaitTime

\* The wait after the failure of the attempt at loop index i.
RetryDelay(i) == baseWaitTime * (i + 1)

\* A loop without its `return`: after a success it goes on to the wait and
\* the next attempt.
tweetAttemptDoneNoReturn(c, ok) ==
    /\ ~agentExited
    /\ tweetCycles[c].pc = "attempt"
    /\ tweetCycles' = [tweetCycles EXCEPT
                          ![c].pc = "wait",
                          ![c].attempts = @ + 1,
                          ![c].published = IF ok THEN @ + 1 ELSE @,
                          ![c].delays = Append(@, RetryDelay(tweetCycles[c].i)),
                          ![c].logged = Append(@, tweetCycles[c].i + 1)]
    /\ UNCHANGED <<tweetTimer, autoPc, autoThrew, agentExited>>

\* `await this.twitter.v2.tweet(...)` settles: on success postTweetWithRetry
\* returns; on failure it logs `attempt ${i + 1}` and waits RetryDelay(i).
tweetAttemptDone(c, ok) ==
    /\ ~agentExited
    /\ tweetCycles[c].pc = "attempt"
    /\ tweetCycles' = [tweetCycles EXCEPT
                          ![c].pc = IF ok THEN "posted" ELSE "wait",
                          ![c].attempts = @ + 1,
                          ![c].published = IF ok THEN @ + 1 ELSE @,
                          ![c].delays =
                              IF ok THEN @
                              ELSE Append(@, RetryDelay(tweetCycles[c].i)),
                          ![c].logged =
                              IF ok THEN @ ELSE Append(@, tweetCycles[c].i + 1)]
    /\ UNCHANGED <<tweetTimer, autoPc, autoThrew, agentExited>>

\* The wait ends: i++, then the next attempt, or `throw lastError` when the
\* loop is over.
tweetWaitDone(c) ==
    /\ ~agentExited
    /\ tweetCycles[c].pc = "wait"
    /\ tweetCycles' = [tweetCycles EXCEPT
                          ![c].i = @ + 1,
                          ![c].pc = IF LoopContinues(tweetCycles[c].i + 1,
                                                     DefaultRetries)
                                      THEN "attempt" ELSE "exhausted"]
    /\ UNCHANGED <<tweetTimer, autoPc, autoThrew, agentExited>>

\* A callback without its try/catch: the rejection is unhandled and ends
\* the process.
tweetCatchUnhandled(c) ==
    /\ ~agentExited
    /\ tweetCycles[c].pc \in {"exhausted", "threw"}
    /\ tweetCycles' = [tweetCycles EXCEPT ![c].pc = "unhandled"]
    /\ agentExited' = TRUE
    /\ UNCHANGED <<tweetTimer, autoPc, autoThrew>>

\* The catch of the scheduleTweets callback: the error postAITweet rethrew
\* is logged, and nothing else happens.
tweetCatch(c) ==
    /\ ~agentExited
    /\ tweetCycles[c].pc \in {"exhausted", "threw"}
    /\ tweetCycles' = [tweetCycles EXCEPT ![c].pc = "failed"]
    /\ UNCHANGED <<tweetTimer, autoPc, autoThrew, agentExited>>

\* The callback's promise settles.
tweetReturn(c) ==
    /\ ~agentExited
    /\ tweetCycles[c].pc \in {"posted", "failed"}
    /\ tweetCycles' = [tweetCycles EXCEPT ![c] = IdleTweet]
    /\ UNCHANGED <<tweetTimer, autoPc, autoThrew, agentExited>>

\* startAgent calls runAutonomousMode once initialize() has started the
\* automation: the loop awaits the agent's stream.
runAutonomousMode ==
    /\ ~agentExited
    /\ tweetTimer
    /\ autoPc = "off"
    /\ autoPc' = "stream"
    /\ UNCHANGED <<tweetTimer, tweetCycles, autoThrew, agentExited>>

\* The stream of one cycle ends: the loop sleeps, or its catch block prints
\* "Goodbye Agent!" and calls process.exit(0).
autoStreamDone(ok) ==
    /\ ~agentExited
    /\ autoPc = "stream"
    /\ IF ok
         THEN /\ autoPc' = "sleep"
              /\ UNCHANGED <<autoThrew, agentExited>>
         ELSE /\ autoThrew' = TRUE
              /\ agentExited' = TRUE
              /\ UNCHANGED autoPc
    /\ UNCHANGED <<tweetTimer, tweetCycles>>

\* The sleep between two cycles ends: the next cycle starts.
autoSleepDone ==
    /\ ~agentExited
    /\ autoPc = "sleep"
    /\ autoPc' = "stream"
    /\ UNCHANGED <<tweetTimer, tweetCycles, autoThrew, agentExited>>

InitAgent == cleanupDone = FALSE

\* cleanup(), from the catch of startAgent or of initialize: the stream rules
\* are deleted, discord is destroyed and isInitialized is reset. It holds no
\* handle of a timer and clears none.
cleanup ==
    /\ ~agentExited
    /\ cleanupDone' = TRUE
    /\ UNCHANGED posterVars

CleanupFrame ==
    UNCHANGED <<chatVars, monitorVars, cacheVars, levelVars, providerVars,
                mergeVars, startupVars, swapVars, initVars, modeVars,
                cmdVars>>

PosterFrame ==
    UNCHANGED <<chatVars, monitorVars, cacheVars, levelVars, providerVars,
                mergeVars, startupVars, agentVars, swapVars, initVars,
                modeVars, cmdVars>>

NextPoster ==
    \/ scheduleTweets /\ PosterFrame
    \/ \E c \in TweetSlots : tweetTick(c) /\ PosterFrame
    \/ \E c \in TweetSlots, ok \in BOOLEAN : tweetDataDone(c, ok) /\ PosterFrame
    \/ \E c \in TweetSlots, ok \in BOOLEAN :
          tweetGenerateDone(c, ok) /\ PosterFrame
    \/ \E c \in TweetSlots, ok \in BOOLEAN :
          tweetAttemptDone(c, ok) /\ PosterFrame
    \/ \E c \in TweetSlots : tweetWaitDone(c) /\ PosterFrame
    \/ \E c \in TweetSlots : tweetCatch(c) /\ PosterFrame
    \/ \E c \in TweetSlots : tweetReturn(c) /\ PosterFrame
    \/ runAutonomousMode /\ PosterFrame
    \/ \E ok \in BOOLEAN : autoStreamDone(ok) /\ PosterFrame
    \/ autoSleepDone /\ PosterFrame
    \/ cleanup /\ CleanupFrame

(***************************************************************************)
(* JupiterPriceV2Service: the cached market-data operations                *)
(***************************************************************************)
\* The operations modelled, by the prefix of their cache key, and the
\* symbols they are called with.
Ops == {"marketData", "metrics", "topMovers"}
Symbols == {"ELONA"}
\* getTopMovers(limit = 10) is called with a limit, not a symbol.
Limits == {"10"}
Args(op) == IF op = "topMovers" THEN Limits ELSE Symbols
Keys == UNION {{<<op, arg>> : arg \in Args(op)} : op \in Ops}

\* `${prefix}:${symbol}`
cacheKey(op, symbol) == <<op, symbol>>

NoEntry == [value |-> [tag |-> "undefined", body |-> [capturedAt |-> 0]],
            writtenAt |-> 0, expiresAt |-> 0]

\* JSON.stringify and JSON.parse of a snapshot.
JSONstringify(snapshot) == [tag |-> "string", body |-> snapshot]
JSONparse(text) == text.body

\* What an operation hands to this.cache.set: getTopMovers stores its array
\* as it is, the others a JSON string.
StoredValue(op, result) ==
    IF op = "topMovers" THEN [tag |-> "object", body |-> result]
                        ELSE JSONstringify(result)

\* What an operation takes for a hit: getTopMovers any truthy value
\* (`if (cached)`), the others a string (`typeof cached === 'string'`).
IsHit(op, cached) ==
    IF op = "topMovers" THEN cached.tag # "undefined"
                        ELSE cached.tag = "string"

\* What an operation returns on a hit: getTopMovers the cached value itself,
\* the others JSON.parse(cached).
HitResult(op, cached) ==
    IF op = "topMovers" THEN cached.body ELSE JSONparse(cached)

\* Date.now(), in milliseconds.
DateNow == now * 1000

\* The `expires` option an operation passes to this.cache.set:
\* getTopMovers passes Date.now() + (5 * 60 * 1000), the others CACHE_TTL.
ExpiresOption(op) ==
    IF op = "topMovers" THEN DateNow + (5 * 60 * 1000) ELSE CACHE_TTL

\* The backing store's get: the value of an entry that has not expired.
cacheGet(key) ==
    IF store[key] # NoEntry /\ now < store[key].expiresAt
      THEN store[key].value
      ELSE NoEntry.value

\* The backing store's set with a time to live in seconds.
cacheSet(key, value, ttl) ==
    [store EXCEPT ![key] = [value |-> value, writtenAt |-> now,
                            expiresAt |-> now + ttl]]

\* Who calls the market-data operations: ChatService.getMarketData.
Callers == {"chat"}

IdleRequest ==
    [pc |-> "idle", op |-> "marketData", symbol |-> "ELONA",
     read |-> "none", readAt |-> 0, entry |-> NoEntry,
     contacted |-> FALSE, afterFailure |-> FALSE,
     fetched |-> FALSE, wrote |-> FALSE,
     result |-> [capturedAt |-> 0], cause |-> "none"]

InitCache ==
    /\ now = 0
    /\ clock = 0
    /\ store = [k \in Keys |-> NoEntry]
    /\ storeUp = TRUE
    /\ getJustFailed = FALSE
    /\ requests = [r \in Callers |-> IdleRequest]

\* Time passes.
advanceClock ==
    /\ clock < MaxClock
    /\ clock' = clock + 1
    /\ now' = now + ClockStep
    /\ getJustFailed' = FALSE
    /\ UNCHANGED <<store, storeUp, requests>>

\* The backing store goes down, or comes back.
storeFails ==
    /\ storeUp
    /\ storeUp' = FALSE
    /\ UNCHANGED <<now, clock, store, getJustFailed, requests>>

storeRecovers ==
    /\ ~storeUp
    /\ storeUp' = TRUE
    /\ UNCHANGED <<now, clock, store, getJustFailed, requests>>

\* getMarketData(symbol), getMarketMetrics(symbol) or getTopMovers(limit) is
\* called: it awaits this.cache.get(cacheKey).
callMarketOp(r, op, symbol) ==
    /\ requests[r].pc = "idle"
    /\ requests' = [requests EXCEPT
                       ![r] = [IdleRequest EXCEPT
                                 !.pc = "get", !.op = op, !.symbol = symbol]]
    /\ UNCHANGED <<now, clock, store, storeUp, getJustFailed>>

\* An operation that would go on to the live fetch even on a hit.
AfterGetAlwaysFetch(req, up, cached) ==
    IF ~up
      THEN [req EXCEPT !.pc = "threw", !.read = "error", !.cause = "cache"]
      ELSE [req EXCEPT !.pc = "fetch",
                       !.read = IF IsHit(req.op, cached) THEN "hit" ELSE "miss"]

\* What the operation does once this.cache.get has settled: a rejection goes
\* to the catch block, which logs and rethrows; a hit is returned; anything
\* else leads to the live fetch.
AfterGet(req, up, cached) ==
    IF ~up
      THEN [req EXCEPT !.pc = "threw", !.read = "error", !.cause = "cache"]
      ELSE IF IsHit(req.op, cached)
             THEN [req EXCEPT !.pc = "returned", !.read = "hit",
                              !.result = HitResult(req.op, cached)]
             ELSE [req EXCEPT !.pc = "fetch", !.read = "miss"]

\* this.cache.get settles: the operation has called the backing store,
\* whatever happened to earlier calls.
marketGetDone(r) ==
    /\ requests[r].pc = "get"
    /\ LET key == cacheKey(requests[r].op, requests[r].symbol)
           req == [requests[r] EXCEPT !.readAt = now, !.entry = store[key],
                                      !.contacted = TRUE,
                                      !.afterFailure = getJustFailed]
       IN requests' = [requests EXCEPT ![r] = AfterGet(req, storeUp, cacheGet(key))]
    /\ getJustFailed' = (getJustFailed \/ ~storeUp)
    /\ UNCHANGED <<now, clock, store, storeUp>>

\* tokenProvider.getProcessedTokenData() settles: the snapshot is built and
\* this.cache.set awaited, or the error is logged and rethrown.
marketFetchDone(r, ok) ==
    /\ requests[r].pc = "fetch"
    /\ requests' = [requests EXCEPT
                       ![r] = IF ok
                                THEN [@ EXCEPT !.pc = "set", !.fetched = TRUE,
                                               !.result = [capturedAt |-> now]]
                                ELSE [@ EXCEPT !.pc = "threw", !.fetched = TRUE,
                                               !.cause = "fetch"]]
    /\ UNCHANGED <<now, clock, store, storeUp, getJustFailed>>

\* this.cache.set(cacheKey, value, { expires: ... }) settles: the result is
\* returned, or the rejection is logged and rethrown.
marketSetDone(r) ==
    /\ requests[r].pc = "set"
    /\ IF storeUp
         THEN /\ store' = cacheSet(cacheKey(requests[r].op, requests[r].symbol),
                                   StoredValue(requests[r].op, requests[r].result),
                                   ExpiresOption(requests[r].op))
              /\ requests' = [requests EXCEPT ![r].pc = "returned",
                                              ![r].wrote = TRUE]
         ELSE /\ requests' = [requests EXCEPT ![r].pc = "threw",
                                              ![r].cause = "cache"]
              /\ UNCHANGED store
    /\ UNCHANGED <<now, clock, storeUp, getJustFailed>>

\* The caller has received the result or the error.
marketReturn(r) ==
    /\ requests[r].pc \in {"returned", "threw"}
    /\ requests' = [requests EXCEPT ![r] = IdleRequest]
    /\ UNCHANGED <<now, clock, store, storeUp, getJustFailed>>

CacheFrame ==
    UNCHANGED <<chatVars, monitorVars, posterVars, levelVars, providerVars,
                mergeVars, startupVars, agentVars, swapVars, initVars,
                modeVars, cmdVars>>

NextCache ==
    \/ advanceClock /\ CacheFrame
    \/ storeFails /\ CacheFrame
    \/ storeRecovers /\ CacheFrame
    \/ \E r \in Callers, op \in Ops :
          \E arg \in Args(op) : callMarketOp(r, op, arg) /\ CacheFrame
    \/ \E r \in Callers : marketGetDone(r) /\ CacheFrame
    \/ \E r \in Callers, ok \in BOOLEAN : marketFetchDone(r, ok) /\ CacheFrame
    \/ \E r \in Callers : marketSetDone(r) /\ CacheFrame
    \/ \E r \in Callers : marketReturn(r) /\ CacheFrame

(***************************************************************************)
(* JupiterPriceV2Service.calculateConfidenceLevel                           *)
(***************************************************************************)
\* Number(x): NaN for undefined.
Number(x) == [nan |-> x.u, v |-> x.v]

\* `a > n` for a number a that may be NaN: false for NaN.
NumGt(a, n) == ~a.nan /\ a.v > n

\* tradeData.volume_24h_usd: absent, or a number around the thresholds.
Volumes ==
    {Undef(0)} \cup {Val(v) : v \in {0, 5000, 10000, 10001, 20000, 50000,
                                     100000, 100001, 150000}}

\* dexData: pairs is empty, or its first pair has no liquidity, or the
\* liquidity has no usd, or usd is a number around the thresholds.
DexDatas ==
    [shape : {"noPair", "noLiquidity", "noUsd"}, usd : {0}]
        \cup [shape : {"usd"},
              usd : {0, 10000, 10001, 20000, 50000, 50001, 60000, 100000}]

\* dexData.pairs[0]?.liquidity?.usd || 0
LiquidityOf(dexData) ==
    IF dexData.shape = "usd" THEN NumOr(Val(dexData.usd), 0) ELSE 0

\* A calculateConfidenceLevel whose comparisons would not be strict.
calculateConfidenceLevelNonStrict(tradeData, dexData) ==
    LET volume24h == Number(tradeData)
        liquidity == LiquidityOf(dexData)
    IN IF ~volume24h.nan /\ volume24h.v >= 100000 /\ liquidity >= 50000
         THEN "high"
         ELSE IF ~volume24h.nan /\ volume24h.v >= 10000 /\ liquidity >= 10000
                THEN "medium"
                ELSE "low"

\* calculateConfidenceLevel(tradeData, dexData), with tradeData reduced to
\* its volume_24h_usd.
calculateConfidenceLevel(tradeData, dexData) ==
    LET volume24h == Number(tradeData)
        liquidity == LiquidityOf(dexData)
    IN IF NumGt(volume24h, 100000) /\ liquidity > 50000
         THEN "high"
         ELSE IF NumGt(volume24h, 10000) /\ liquidity > 10000
                THEN "medium"
                ELSE "low"

NoLevelCall ==
    [called |-> FALSE, tradeData |-> Undef(0),
     dexData |-> [shape |-> "noPair", usd |-> 0], level |-> "low"]

InitLevel == levelCall = NoLevelCall

\* getMarketMetrics or getTokenPrice computes the confidenceLevel of the
\* token data it fetched.
confidenceLevelCall(tradeData, dexData) ==
    levelCall' = [called |-> TRUE, tradeData |-> tradeData, dexData |-> dexData,
                  level |-> calculateConfidenceLevel(tradeData, dexData)]

LevelFrame ==
    UNCHANGED <<chatVars, monitorVars, posterVars, cacheVars, providerVars,
                mergeVars, startupVars, agentVars, swapVars, initVars,
                modeVars, cmdVars>>

NextLevel ==
    \E tradeData \in Volumes, dexData \in DexDatas :
        confidenceLevelCall(tradeData, dexData) /\ LevelFrame

(***************************************************************************)
(* ChatService.getMarketData over JupiterPriceV2Service.getMarketMetrics   *)
(***************************************************************************)
\* The symbols a chat command may ask for.
ChatSymbols == {"ELONA", "BONK"}
\* The chat commands that call getMarketData; the readline handler awaits
\* nothing between lines, so one may start while the other is in flight.
MarketCommands == {"market", "analyze"}

\* No address: the '' the constructor of JupiterPriceV2Service gives its own
\* TokenProvider, and an empty entry of the cache.
NoAddress == ""

IdleMarketCall ==
    [pc |-> "idle", symbol |-> NoAddress, addressAtCall |-> NoAddress,
     fetchedFor |-> NoAddress, result |-> "none"]

InitProvider ==
    /\ chatTokenProvider =
          [constructed |-> FALSE, given |-> FALSE, tokenAddress |-> NoAddress]
    /\ priceTokenAddress = NoAddress
    /\ metricsCache = [s \in ChatSymbols |-> NoAddress]
    /\ marketCalls = [k \in MarketCommands |-> IdleMarketCall]

\* new ChatService(aiService, twitterService, jupiterService, tokenProvider):
\* the fourth argument is given, or left out as at every construction in
\* index.ts, and then this.tokenProvider is undefined.
newChatService(given) ==
    /\ ~chatTokenProvider.constructed
    /\ chatTokenProvider' =
          [constructed |-> TRUE, given |-> given, tokenAddress |-> NoAddress]
    /\ UNCHANGED <<priceTokenAddress, metricsCache, marketCalls>>

\* JupiterPriceV2Service.setTokenAddress(tokenAddress).
setTokenAddress(tokenAddress) ==
    /\ priceTokenAddress' = tokenAddress
    /\ UNCHANGED <<chatTokenProvider, metricsCache, marketCalls>>

\* A command calls getMarketData(symbol): this.tokenProvider.setTokenAddress
\* (a TypeError on an undefined provider, caught, and null is returned), then
\* it awaits this.tokenProvider.getProcessedTokenData().
chatGetMarketData(k, symbol) ==
    /\ chatTokenProvider.constructed
    /\ marketCalls[k].pc = "idle"
    /\ IF chatTokenProvider.given
         THEN /\ chatTokenProvider' =
                    [chatTokenProvider EXCEPT !.tokenAddress = symbol]
              /\ marketCalls' = [marketCalls EXCEPT
                                    ![k].pc = "tokenData",
                                    ![k].symbol = symbol]
         ELSE /\ marketCalls' = [marketCalls EXCEPT
                                    ![k].pc = "returned",
                                    ![k].symbol = symbol,
                                    ![k].result = "null"]
              /\ UNCHANGED chatTokenProvider
    /\ UNCHANGED <<priceTokenAddress, metricsCache>>

\* The provider of ChatService answers (its data is not used), and
\* jupiterService.getMarketMetrics(symbol) is called and awaits cache.get;
\* or the provider throws and getMarketData returns null. addressAtCall
\* notes the address the provider of the price service holds at that call.
chatTokenDataDone(k, ok) ==
    /\ marketCalls[k].pc = "tokenData"
    /\ marketCalls' = [marketCalls EXCEPT
                          ![k].pc = IF ok THEN "get" ELSE "returned",
                          ![k].addressAtCall =
                              IF ok THEN priceTokenAddress ELSE @,
                          ![k].result = IF ok THEN @ ELSE "null"]
    /\ UNCHANGED <<chatTokenProvider, priceTokenAddress, metricsCache>>

\* The address whose data this.tokenProvider.getProcessedTokenData() fetches
\* in getMarketMetrics(symbol): the one the provider of the price service
\* holds when it is called; the symbol is used in the cache key only.
FetchAddress(symbol) == priceTokenAddress

\* cache.get settles in getMarketMetrics: a cached string is parsed and
\* returned; otherwise the provider of the price service is asked for the
\* token data and the call awaits it.
metricsGetDone(k) ==
    /\ marketCalls[k].pc = "get"
    /\ marketCalls' =
          IF metricsCache[marketCalls[k].symbol] # NoAddress
            THEN [marketCalls EXCEPT
                    ![k].pc = "returned",
                    ![k].result = metricsCache[marketCalls[k].symbol]]
            ELSE [marketCalls EXCEPT
                    ![k].pc = "fetch",
                    ![k].fetchedFor = FetchAddress(marketCalls[k].symbol)]
    /\ UNCHANGED <<chatTokenProvider, priceTokenAddress, metricsCache>>

\* getProcessedTokenData settles in getMarketMetrics: the metrics are built
\* and cache.set is awaited; or it throws, getMarketMetrics rethrows and
\* getMarketData returns null.
metricsFetchDone(k, ok) ==
    /\ marketCalls[k].pc = "fetch"
    /\ marketCalls' = [marketCalls EXCEPT
                          ![k].pc = IF ok THEN "set" ELSE "returned",
                          ![k].result = IF ok THEN @ ELSE "null"]
    /\ UNCHANGED <<chatTokenProvider, priceTokenAddress, metricsCache>>

\* cache.set(`metrics:${symbol}`, ...) settles and the metrics are returned.
metricsSetDone(k) ==
    /\ marketCalls[k].pc = "set"
    /\ metricsCache' = [metricsCache EXCEPT
                           ![marketCalls[k].symbol] = marketCalls[k].fetchedFor]
    /\ marketCalls' = [marketCalls EXCEPT
                          ![k].pc = "returned",
                          ![k].result = marketCalls[k].fetchedFor]
    /\ UNCHANGED <<chatTokenProvider, priceTokenAddress>>

\* The command has printed what getMarketData returned.
chatMarketReturn(k) ==
    /\ marketCalls[k].pc = "returned"
    /\ marketCalls' = [marketCalls EXCEPT ![k] = IdleMarketCall]
    /\ UNCHANGED <<chatTokenProvider, priceTokenAddress, metricsCache>>

ProviderFrame ==
    UNCHANGED <<chatVars, monitorVars, posterVars, cacheVars, levelVars,
                mergeVars, startupVars, agentVars, swapVars, initVars,
                modeVars, cmdVars>>

NextProvider ==
    \/ \E given \in BOOLEAN : newChatService(given) /\ ProviderFrame
    \/ \E a \in ChatSymbols : setTokenAddress(a) /\ ProviderFrame
    \/ \E k \in MarketCommands, symbol \in ChatSymbols :
          chatGetMarketData(k, symbol) /\ ProviderFrame
    \/ \E k \in MarketCommands, ok \in BOOLEAN :
          chatTokenDataDone(k, ok) /\ ProviderFrame
    \/ \E k \in MarketCommands : metricsGetDone(k) /\ ProviderFrame
    \/ \E k \in MarketCommands, ok \in BOOLEAN :
          metricsFetchDone(k, ok) /\ ProviderFrame
    \/ \E k \in MarketCommands : metricsSetDone(k) /\ ProviderFrame
    \/ \E k \in MarketCommands : chatMarketReturn(k) /\ ProviderFrame

(***************************************************************************)
(* JupiterPriceV2Service: the numeric fields of a snapshot                 *)
(***************************************************************************)
\* A number that is not NaN.
Num(x) == [nan |-> FALSE, v |-> x]

\* tradeData as the token provider may deliver it: price, volume_24h_usd and
\* price_change_24h_percent each a number or absent.
TradeDatas ==
    [price : {Undef(0), Val(0), Val(2)},
     volume_24h_usd : {Undef(0), Val(0), Val(20000)},
     price_change_24h_percent : {Undef(0), Val(-3), Val(4)}]

\* dexData: pairs is empty, or its first pair has no marketCap, or it has one.
CapDatas ==
    [shape : {"noPair", "noMarketCap"}, marketCap : {0}]
        \cup [shape : {"marketCap"}, marketCap : {0, 1000}]

\* dexData.pairs[0]?.marketCap || 0
MarketCapOf(dexData) ==
    IF dexData.shape = "marketCap" THEN NumOr(Val(dexData.marketCap), 0) ELSE 0

\* The numeric fields of the object getMarketData builds.
marketData(tradeData, dexData) ==
    [price |-> Number(tradeData.price),
     volume24h |-> Number(tradeData.volume_24h_usd),
     priceChange24h |-> Number(tradeData.price_change_24h_percent),
     marketCap |-> Num(MarketCapOf(dexData))]

\* The numeric fields of the object getMarketMetrics builds.
marketMetrics(tradeData, dexData) ==
    [price |-> Number(tradeData.price),
     volume24h |-> Number(tradeData.volume_24h_usd),
     priceChange24h |-> Number(tradeData.price_change_24h_percent),
     marketCap |-> Num(MarketCapOf(dexData))]

NoMergeCall ==
    [op |-> "none",
     tradeData |-> [price |-> Undef(0), volume_24h_usd |-> Undef(0),
                    price_change_24h_percent |-> Undef(0)],
     dexData |-> [shape |-> "noPair", marketCap |-> 0],
     snapshot |-> [price |-> Num(0), volume24h |-> Num(0),
                   priceChange24h |-> Num(0), marketCap |-> Num(0)]]

InitMerge == mergeCall = NoMergeCall

\* getMarketData or getMarketMetrics, after a cache miss, builds its
\* snapshot from the token data it fetched.
buildSnapshot(op, tradeData, dexData) ==
    mergeCall' = [op |-> op, tradeData |-> tradeData, dexData |-> dexData,
                  snapshot |-> IF op = "marketData"
                                 THEN marketData(tradeData, dexData)
                                 ELSE marketMetrics(tradeData, dexData)]

MergeFrame ==
    UNCHANGED <<chatVars, monitorVars, posterVars, cacheVars, levelVars,
                providerVars, startupVars, agentVars, swapVars, initVars,
                modeVars, cmdVars>>

NextMerge ==
    \E op \in {"marketData", "metrics"}, tradeData \in TradeDatas,
       dexData \in CapDatas :
        buildSnapshot(op, tradeData, dexData) /\ MergeFrame

(***************************************************************************)
(* main: validateEnvironment and the start of a mode                       *)
(***************************************************************************)
\* requiredEnvVars of validateEnvironment.
requiredEnvVars ==
    {"GROQ_API_KEY", "HELIUS_API_KEY", "TWITTER_API_KEY", "TWITTER_API_SECRET",
     "TWITTER_ACCESS_TOKEN", "TWITTER_ACCESS_SECRET", "TWITTER_BEARER_TOKEN",
     "OAUTH_CLIENT_ID", "OAUTH_CLIENT_SECRET"}

InitStartup ==
    /\ startupPc = "boot"
    /\ envMissing = {}
    /\ servicesInitialized = FALSE
    /\ constructed = {}
    /\ startedMode = "none"
    /\ configError = FALSE
    /\ exitCode = -1

\* The process starts with its environment, in which some of the required
\* variables may not be set, and evaluates the module.
startProcess(missing) ==
    /\ startupPc = "boot"
    /\ startupPc' = "load"
    /\ envMissing' = missing
    /\ UNCHANGED <<servicesInitialized, constructed, startedMode, configError,
                   exitCode>>

\* The module's top level runs before its last statement calls main(): it
\* constructs the MarketDataProcessor and calls startMemeAgent(), which
\* constructs an AIService before its first await; what follows that await
\* runs only after main's synchronous start.
moduleLoad ==
    /\ startupPc = "load"
    /\ startupPc' = "validate"
    /\ constructed' = {"dataProcessor", "aiService"}
    /\ UNCHANGED <<envMissing, servicesInitialized, startedMode, configError,
                   exitCode>>

\* validateEnvironment() throws: `missing.length > 0`.
validateEnvironment(missing) == Cardinality(missing) > 0

\* main: validateEnvironment(); logConfiguration(); then it awaits
\* initializeServices(). A throw goes to main's catch.
mainValidate ==
    /\ startupPc = "validate"
    /\ IF validateEnvironment(envMissing)
         THEN startupPc' = "catch" /\ configError' = TRUE
         ELSE startupPc' = "initializeServices" /\ UNCHANGED configError
    /\ UNCHANGED <<envMissing, servicesInitialized, constructed, startedMode,
                   exitCode>>

\* initializeServices settles: main awaits selectMode(), or it threw.
mainServicesDone(ok) ==
    /\ startupPc = "initializeServices"
    /\ startupPc' = IF ok THEN "selectMode" ELSE "catch"
    /\ servicesInitialized' = ok
    /\ UNCHANGED <<envMissing, constructed, startedMode, configError,
                   exitCode>>

\* selectMode resolves and main calls startChat or startAutonomousMode.
mainModeSelected(m) ==
    /\ startupPc = "selectMode"
    /\ startupPc' = "running"
    /\ startedMode' = m
    /\ UNCHANGED <<envMissing, servicesInitialized, constructed, configError,
                   exitCode>>

\* main's catch block logs the error and builds its emptyServices: the
\* AIService is constructed, and the evaluation of `this.tokenAddress` in
\* the arguments of the TwitterService throws, main being called without a
\* receiver; main().catch then calls process.exit(1).
mainCatch ==
    /\ startupPc = "catch"
    /\ constructed' = constructed \cup {"aiService"}
    /\ startupPc' = "exited"
    /\ exitCode' = 1
    /\ UNCHANGED <<envMissing, servicesInitialized, startedMode, configError>>

\* SIGINT or SIGTERM while a mode runs: the handlers end the process.
mainShutdown ==
    /\ startupPc = "running"
    /\ startupPc' = "exited"
    /\ exitCode' = 0
    /\ UNCHANGED <<envMissing, servicesInitialized, constructed, startedMode,
                   configError>>

StartupFrame ==
    UNCHANGED <<chatVars, monitorVars, posterVars, cacheVars, levelVars,
                providerVars, mergeVars, agentVars, swapVars, initVars,
                modeVars, cmdVars>>

NextStartup ==
    \/ \E missing \in SUBSET requiredEnvVars :
          startProcess(missing) /\ StartupFrame
    \/ moduleLoad /\ StartupFrame
    \/ mainValidate /\ StartupFrame
    \/ \E ok \in BOOLEAN : mainServicesDone(ok) /\ StartupFrame
    \/ \E m \in {"chat", "auto"} : mainModeSelected(m) /\ StartupFrame
    \/ mainCatch /\ StartupFrame
    \/ mainShutdown /\ StartupFrame

(***************************************************************************)
(* swapSolToToken                                                          *)
(***************************************************************************)
\* Amounts are counted in thousandths of a SOL: 0.01 SOL is 10 and the
\* maximum of 1000 SOL is 1000000.
MinElonaAmount == 10
MaxSwapAmount == 1000000

\* amountInSol: not a number, negative, zero, and values around the limits.
SwapAmounts ==
    {[nan |-> TRUE, v |-> 0]}
        \cup {Num(v) : v \in {-1, 0, 5, 10, 500, 1000000, 1000001}}
OutputMints == {"USDC", "ELONA"}
\* agentWallet.getBalance(): nothing, or a wallet with its balance.
WalletInfos ==
    {[known |-> FALSE, balance |-> 0]}
        \cup {[known |-> TRUE, balance |-> b] : b \in {0, 10, 500, 2000000}}

\* `a <= n`, `a < n` and `n < a` for a number a that may be NaN: all false
\* for NaN.
NumLe(a, n) == ~a.nan /\ a.v <= n
NumLt(a, n) == ~a.nan /\ a.v < n
LtNum(n, a) == ~a.nan /\ n < a.v

\* validateSwapAmount(amount, outputMint)
validateSwapAmount(amount, outputMint) ==
    IF NumLe(amount, 0) THEN FALSE
    ELSE IF outputMint = "ELONA" /\ NumLt(amount, MinElonaAmount) THEN FALSE
    ELSE IF NumGt(amount, MaxSwapAmount) THEN FALSE
    ELSE TRUE

IdleSwap ==
    [pc |-> "idle", amount |-> Num(0), outputMint |-> "USDC",
     quote |-> FALSE, wallet |-> [known |-> FALSE, balance |-> 0],
     prepared |-> FALSE, signCalled |-> FALSE, signature |-> FALSE,
     status |-> "none", threw |-> FALSE]

InitSwap == swapCall = IdleSwap

\* swapSolToToken(amountInSol, outputMint): an invalid amount is returned as
\* an error; otherwise getSwapQuote is awaited.
swapSolToToken(amount, outputMint) ==
    /\ swapCall.pc = "idle"
    /\ swapCall' =
          IF validateSwapAmount(amount, outputMint)
            THEN [IdleSwap EXCEPT !.pc = "quote", !.amount = amount,
                                   !.outputMint = outputMint]
            ELSE [IdleSwap EXCEPT !.pc = "returned", !.amount = amount,
                                   !.outputMint = outputMint,
                                   !.status = "error"]

\* getSwapQuote settles: with a quote getBalance is awaited; null (its own
\* catch returns null too) is returned as an error.
swapQuoteDone(ok) ==
    /\ swapCall.pc = "quote"
    /\ swapCall' = IF ok
                     THEN [swapCall EXCEPT !.pc = "balance", !.quote = TRUE]
                     ELSE [swapCall EXCEPT !.pc = "returned",
                                           !.status = "error"]

\* A catch that would let the error out of swapSolToToken.
swapCatchRethrows(call) == [call EXCEPT !.pc = "returned", !.threw = TRUE]

\* The catch of swapSolToToken: the error is logged and returned as a result.
swapCatch(call) == [call EXCEPT !.pc = "returned", !.status = "error"]

\* agentWallet.getBalance() settles: without wallet information, or with a
\* balance below the amount, an error is returned; otherwise the swap is
\* logged and prepareSwapTransaction is awaited. A throw goes to the catch.
swapBalanceDone(threw, walletInfo) ==
    /\ swapCall.pc = "balance"
    /\ swapCall' =
          IF threw THEN swapCatch(swapCall)
          ELSE IF ~walletInfo.known \/ LtNum(walletInfo.balance, swapCall.amount)
            THEN [swapCall EXCEPT !.pc = "returned", !.wallet = walletInfo,
                                  !.status = "error"]
            ELSE [swapCall EXCEPT !.pc = "prepare", !.wallet = walletInfo]

\* prepareSwapTransaction settles: it returns the transaction, or null when
\* the API refused or anything threw inside it.
swapPrepareDone(ok) ==
    /\ swapCall.pc = "prepare"
    /\ swapCall' = IF ok
                     THEN [swapCall EXCEPT !.pc = "sign", !.prepared = TRUE,
                                           !.signCalled = TRUE]
                     ELSE [swapCall EXCEPT !.pc = "returned",
                                           !.status = "error"]

\* agentWallet.signAndSendTransaction settles: its signature is returned
\* with the status success; a throw goes to the catch.
swapSignDone(threw) ==
    /\ swapCall.pc = "sign"
    /\ swapCall' = IF threw THEN swapCatch(swapCall)
                   ELSE [swapCall EXCEPT !.pc = "returned",
                                         !.signature = TRUE,
                                         !.status = "success"]

\* The caller has the result; the next call may start.
swapReturn ==
    /\ swapCall.pc = "returned"
    /\ swapCall' = IdleSwap

SwapFrame ==
    UNCHANGED <<chatVars, monitorVars, posterVars, cacheVars, levelVars,
                providerVars, mergeVars, startupVars, agentVars, initVars,
                modeVars, cmdVars>>

NextSwap ==
    \/ \E amount \in SwapAmounts, outputMint \in OutputMints :
          swapSolToToken(amount, outputMint) /\ SwapFrame
    \/ \E ok \in BOOLEAN : swapQuoteDone(ok) /\ SwapFrame
    \/ \E threw \in BOOLEAN, walletInfo \in WalletInfos :
          swapBalanceDone(threw, walletInfo) /\ SwapFrame
    \/ \E ok \in BOOLEAN : swapPrepareDone(ok) /\ SwapFrame
    \/ \E threw \in BOOLEAN : swapSignDone(threw) /\ SwapFrame
    \/ swapReturn /\ SwapFrame

(***************************************************************************)
(* MemeAgentInfluencer: startAgent, initialize, initializeServices and      *)
(* cleanup                                                                  *)
(***************************************************************************)
MaxInitCalls == 3

\* The awaits of initialize, in order; the fourth to seventh are those of
\* initializeServices.
InitSteps ==
    <<"initializeLLM", "verifyAndInitialize", "initializeSolana",
      "socialService.initialize", "setupMessageHandling", "setupTwitterRules",
      "setupTwitterStream", "startAutomation">>

ServicesSteps ==
    {"socialService.initialize", "setupMessageHandling", "setupTwitterRules",
     "setupTwitterStream"}

\* The step of initialize an await belongs to.
StepOf(name) == IF name \in ServicesSteps THEN "initializeServices" ELSE name

\* The five steps of initialize, in order.
FiveSteps ==
    <<"initializeLLM", "verifyAndInitialize", "initializeSolana",
      "initializeServices", "startAutomation">>

\* `private socialService!: SocialService` and `private discord!:
\* DiscordClient` are declared and read, and nothing assigns them.
socialServiceAssigned == FALSE

discordAssigned == FALSE

\* An await whose receiver is undefined throws a TypeError whatever the
\* services answer.
CanSucceed(name) ==
    /\ name = "socialService.initialize" => socialServiceAssigned
    /\ name = "setupMessageHandling" => discordAssigned

\* The awaits that end with setupTwitterStream registering a 'data' handler
\* on a new stream: setupMessageHandling calls it as its last statement.
RegistersDataHandler(name) ==
    name \in {"setupMessageHandling", "setupTwitterStream"}

IdleAgentInit ==
    [pc |-> "new", step |-> 0, viaStartAgent |-> FALSE, completed |-> <<>>,
     failedAt |-> "none", externalFailed |-> FALSE, thrown |-> "none",
     appOnlyClient |-> FALSE, isInitialized |-> FALSE, dataHandlers |-> 0,
     calls |-> 0, cleanupCalls |-> 0]

InitAgentInit == agentInit = IdleAgentInit

\* initialize() is called: by startAgent when isInitialized is false, or
\* directly. Its first await is initializeLLM.
initialize(viaStartAgent) ==
    /\ agentInit.pc \in {"new", "settled"}
    /\ agentInit.calls < MaxInitCalls
    /\ viaStartAgent => ~agentInit.isInitialized
    /\ agentInit' = [agentInit EXCEPT
                        !.pc = "running", !.step = 1,
                        !.viaStartAgent = viaStartAgent,
                        !.completed = <<>>, !.failedAt = "none",
                        !.externalFailed = FALSE, !.thrown = "none",
                        !.calls = @ + 1]

\* The await of initialize at which the call stands settles. When it
\* resolves the next one starts, and after the last one isInitialized is set
\* and initialize returns; when it rejects the catch of initialize is
\* entered. verifyAndInitialize assigns appOnlyClient before it verifies the
\* credentials, so its failure leaves the client set or not.
initStepSettles(ok, clientSet) ==
    LET name == InitSteps[agentInit.step]
        last == agentInit.step = Len(InitSteps)
        stepEnds == last \/ StepOf(InitSteps[agentInit.step + 1]) # StepOf(name)
    IN
    /\ agentInit.pc = "running"
    /\ ok => CanSucceed(name)
    /\ clientSet = IF name = "verifyAndInitialize"
                     THEN (ok \/ clientSet)
                     ELSE agentInit.appOnlyClient
    /\ agentInit' =
          IF ok
            THEN [agentInit EXCEPT
                     !.appOnlyClient = clientSet,
                     !.dataHandlers =
                         IF RegistersDataHandler(name) THEN @ + 1 ELSE @,
                     !.completed =
                         IF stepEnds THEN Append(@, StepOf(name)) ELSE @,
                     !.isInitialized = IF last THEN TRUE ELSE @,
                     !.pc = IF last THEN "settled" ELSE "running",
                     !.step = IF last THEN @ ELSE @ + 1]
            ELSE [agentInit EXCEPT
                     !.appOnlyClient = clientSet,
                     !.pc = "catch",
                     !.failedAt = StepOf(name),
                     !.externalFailed = CanSucceed(name)]

\* The catch of initialize: the error is logged and cleanup() is awaited.
initializeCatch ==
    /\ agentInit.pc = "catch"
    /\ agentInit' = [agentInit EXCEPT !.pc = "cleanup",
                                      !.cleanupCalls = @ + 1]

\* cleanup() settles. With appOnlyClient set it awaits updateStreamRules,
\* which may reject: cleanup then rethrows that error, before isInitialized
\* is reset, and the caller's `throw error` is not reached. Otherwise
\* isInitialized is reset and the caller rethrows the error it caught.
cleanupSettles(ok) ==
    /\ agentInit.pc \in {"cleanup", "agentCleanup"}
    /\ ~ok => agentInit.appOnlyClient
    /\ agentInit' = [agentInit EXCEPT
                        !.isInitialized = IF ok THEN FALSE ELSE @,
                        !.thrown = IF ~ok THEN "cleanup"
                                   ELSE IF agentInit.pc = "cleanup"
                                          THEN agentInit.failedAt ELSE @,
                        !.pc = IF agentInit.pc = "cleanup"
                                 THEN "rejected" ELSE "settled"]

\* initialize() has rejected: the catch of startAgent logs the error and
\* awaits cleanup() again; a direct caller has the rejection.
initializeRejects ==
    /\ agentInit.pc = "rejected"
    /\ agentInit' =
          IF agentInit.viaStartAgent
            THEN [agentInit EXCEPT !.pc = "agentCleanup",
                                   !.cleanupCalls = @ + 1]
            ELSE [agentInit EXCEPT !.pc = "settled"]

InitFrame ==
    UNCHANGED <<chatVars, monitorVars, posterVars, cacheVars, levelVars,
                providerVars, mergeVars, startupVars, agentVars, swapVars,
                modeVars, cmdVars>>

NextInit ==
    \/ \E viaStartAgent \in BOOLEAN : initialize(viaStartAgent) /\ InitFrame
    \/ \E ok \in BOOLEAN, clientSet \in BOOLEAN :
          initStepSettles(ok, clientSet) /\ InitFrame
    \/ initializeCatch /\ InitFrame
    \/ \E ok \in BOOLEAN : cleanupSettles(ok) /\ InitFrame
    \/ initializeRejects /\ InitFrame

(***************************************************************************)
(* The mode prompts: selectMode and the prompt of startMemeAgent. A line    *)
(* of input is a sequence of characters.                                    *)
(***************************************************************************)
MaxChoices == 3

Whitespace == {" ", "\n", "\t", "\r"}

\* String.prototype.toLowerCase, on the letters of the inputs.
LowerOf(ch) ==
    CASE ch = "A" -> "a"
      [] ch = "C" -> "c"
      [] ch = "H" -> "h"
      [] ch = "O" -> "o"
      [] ch = "T" -> "t"
      [] ch = "U" -> "u"
      [] OTHER -> ch

toLowerCase(str) == [k \in 1..Len(str) |-> LowerOf(str[k])]

\* String.prototype.trim: the whitespace at both ends is removed, the
\* whitespace inside is kept.
trim(str) ==
    LET inked == {k \in 1..Len(str) : str[k] \notin Whitespace}
    IN  IF inked = {} THEN <<>>
        ELSE LET first == CHOOSE k \in inked : \A j \in inked : k <= j
                 last == CHOOSE k \in inked : \A j \in inked : k >= j
             IN  SubSeq(str, first, last)

\* What `data.toString()` can be: the valid choices as typed, with other
\* case and with whitespace around them, and invalid ones.
ModeInputs ==
    {<<"1", "\n">>, <<"2", "\n">>, <<"c", "h", "a", "t", "\n">>,
     <<" ", "C", "h", "A", "t", " ", "\r", "\n">>, <<"a", "u", "t", "o">>,
     <<"\t", "A", "U", "T", "O", "\n">>, <<"3", "\n">>, <<"\n">>,
     <<"c", "h", " ", "a", "t", "\n">>, <<"1", "2", "\n">>}

\* The choice both prompts make on the normalized input.
ModeOf(normalizedChoice) ==
    IF normalizedChoice = <<"1">> \/ normalizedChoice = <<"c", "h", "a", "t">>
      THEN "chat"
    ELSE IF normalizedChoice = <<"2">>
              \/ normalizedChoice = <<"a", "u", "t", "o">>
      THEN "auto"
    ELSE "invalid"

IdleModePrompt ==
    [fn |-> "none", pc |-> "idle", result |-> "none", listening |-> FALSE,
     prompts |-> 0, choices |-> <<>>]

InitMode == modePrompt = IdleModePrompt

\* selectMode(), or startMemeAgent reaching its prompt: the prompt is
\* written and a once-listener for 'data' is put on stdin.
promptMode(fn) ==
    /\ modePrompt.pc = "idle"
    /\ modePrompt' = [modePrompt EXCEPT !.fn = fn, !.pc = "pending",
                                        !.listening = TRUE, !.prompts = 1]

\* handleChoice of selectMode on a line of input: a valid choice resolves
\* the promise; any other is answered with a warning, the prompt again and
\* a new once-listener.
handleChoice(data) ==
    LET chosen == ModeOf(toLowerCase(trim(data))) IN
    /\ modePrompt.pc = "pending"
    /\ modePrompt.fn = "selectMode"
    /\ modePrompt.listening
    /\ Len(modePrompt.choices) < MaxChoices
    /\ modePrompt' =
          IF chosen # "invalid"
            THEN [modePrompt EXCEPT !.choices = Append(@, data),
                                    !.listening = FALSE,
                                    !.pc = "resolved", !.result = chosen]
            ELSE [modePrompt EXCEPT !.choices = Append(@, data),
                                    !.prompts = @ + 1]

\* The prompt of startMemeAgent on a line of input: its promise resolves with
\* the normalized input; a valid choice is returned, and after any other
\* "Invalid choice. Please try again." is logged and the function returns
\* undefined, with no listener left on stdin.
startMemeAgentChoice(data) ==
    LET chosen == ModeOf(toLowerCase(trim(data))) IN
    /\ modePrompt.pc = "pending"
    /\ modePrompt.fn = "startMemeAgent"
    /\ modePrompt.listening
    /\ modePrompt' = [modePrompt EXCEPT
                         !.choices = Append(@, data),
                         !.listening = FALSE,
                         !.pc = "resolved",
                         !.result = IF chosen # "invalid" THEN chosen
                                    ELSE "undefined"]

\* The caller has the result; the next prompt can be asked.
promptReturn ==
    /\ modePrompt.pc = "resolved"
    /\ modePrompt' = IdleModePrompt

ModeFrame ==
    UNCHANGED <<chatVars, monitorVars, posterVars, cacheVars, levelVars,
                providerVars, mergeVars, startupVars, agentVars, swapVars,
                initVars, cmdVars>>

NextMode ==
    \/ \E fn \in {"selectMode", "startMemeAgent"} : promptMode(fn) /\ ModeFrame
    \/ \E data \in ModeInputs : handleChoice(data) /\ ModeFrame
    \/ \E data \in ModeInputs : startMemeAgentChoice(data) /\ ModeFrame
    \/ promptReturn /\ ModeFrame

(***************************************************************************)
(* ChatService: initializeModes and addCommands. A config is the list of    *)
(* the names of its commands.                                               *)
(***************************************************************************)
MaxCommands == 5

\* getModeConfig of a mode no config was registered for: undefined.
NoConfig == [registered |-> FALSE, commands |-> <<>>]

Config(commands) == [registered |-> TRUE, commands |-> commands]

\* A `commands` argument: a list, or undefined.
NoCommands == [defined |-> FALSE, list |-> <<>>]

Commands(list) == [defined |-> TRUE, list |-> list]

\* The commands of chatConfig and autoConfig in initializeModes.
chatConfig == Config(<<"market", "analyze", "tweet">>)

autoConfig == Config(<<"pause", "resume">>)

\* `this.twitterCommands.getTwitterCommands().commands`: the commands of the
\* TwitterCommands object, by name.
twitterCommands == Commands(<<"twitter1", "twitter2">>)

\* The lists addCommands is called with after construction.
CommandLists ==
    {Commands(<<"help">>), Commands(<<"tweet">>),
     Commands(<<"status", "help">>), NoCommands}

\* addCommands(commands): the config of the current mode gets the commands
\* appended to those it has, and is registered again; nothing happens when
\* the current mode has no config or commands is undefined.
addCommands(configs, current, commands) ==
    IF configs[current].registered /\ commands.defined
      THEN [configs EXCEPT ![current].commands = @ \o commands.list]
      ELSE configs

NoAdd == [mode |-> "none", before |-> NoConfig, commands |-> NoCommands]

InitCmd ==
    /\ modeConfigs = [m \in Modes |-> NoConfig]
    /\ currentMode = "idle"
    /\ chatBuilt = FALSE
    /\ lastAdd = NoAdd

\* The ChatService constructor: a new ModeManager, then initializeModes
\* registers chatConfig and autoConfig and calls addCommands with the
\* Twitter commands.
initializeModes ==
    LET base == [modeConfigs EXCEPT !["chat"] = chatConfig,
                                    !["auto"] = autoConfig]
    IN
    /\ ~chatBuilt
    /\ chatBuilt' = TRUE
    /\ modeConfigs' = addCommands(base, currentMode, twitterCommands)
    /\ lastAdd' = [mode |-> currentMode, before |-> base[currentMode],
                   commands |-> twitterCommands]
    /\ UNCHANGED currentMode

\* The mode manager switches to chat or to auto.
switchMode(newMode) ==
    /\ chatBuilt
    /\ newMode # currentMode
    /\ currentMode' = newMode
    /\ UNCHANGED <<modeConfigs, chatBuilt, lastAdd>>

\* A later call of the public method addCommands.
addCommandsCall(commands) ==
    /\ chatBuilt
    /\ Len(modeConfigs[currentMode].commands) + Len(commands.list)
          <= MaxCommands
    /\ modeConfigs' = addCommands(modeConfigs, currentMode, commands)
    /\ lastAdd' = [mode |-> currentMode, before |-> modeConfigs[currentMode],
                   commands |-> commands]
    /\ UNCHANGED <<currentMode, chatBuilt>>

CmdFrame ==
    UNCHANGED <<chatVars, monitorVars, posterVars, cacheVars, levelVars,
                providerVars, mergeVars, startupVars, agentVars, swapVars,
                initVars, modeVars>>

NextCmd ==
    \/ initializeModes /\ CmdFrame
    \/ \E newMode \in {"chat", "auto"} : switchMode(newMode) /\ CmdFrame
    \/ \E commands \in CommandLists :
          addCommandsCall(commands) /\ CmdFrame

Init ==
    /\ InitChat
    /\ InitMonitor
    /\ InitPoster
    /\ InitCache
    /\ InitLevel
    /\ InitProvider
    /\ InitMerge
    /\ InitStartup
    /\ InitAgent
    /\ InitSwap
    /\ InitAgentInit
    /\ InitMode
    /\ InitCmd

SpecChat == Init /\ [][NextChat]_vars

SpecMonitor == Init /\ [][NextMonitor]_vars

SpecPoster == Init /\ [][NextPoster]_vars

SpecCache == Init /\ [][NextCache]_vars

SpecLevel == Init /\ [][NextLevel]_vars

SpecProvider == Init /\ [][NextProvider]_vars

SpecMerge == Init /\ [][NextMerge]_vars

SpecSwap == Init /\ [][NextSwap]_vars

SpecInit == Init /\ [][NextInit]_vars

SpecMode == Init /\ [][NextMode]_vars

SpecCmd == Init /\ [][NextCmd]_vars

\* main's own steps are taken when they can be: nothing they wait for is
\* outside the process. Signals and the answers of the services are not.
SpecStartup ==
    /\ Init
    /\ [][NextStartup]_vars
    /\ WF_vars(moduleLoad /\ StartupFrame)
    /\ WF_vars(mainValidate /\ StartupFrame)
    /\ WF_vars(mainCatch /\ StartupFrame)

(***************************************************************************)
(* Claims about ChatService                                                *)
(***************************************************************************)

\* C1: the scheduler never runs two cycles concurrently: at every instant at
\* most one interval callback is in flight.
C1_AtMostOneCycleInFlight == Cardinality(InFlight) <= 1

\* C2: a cycle whose timer was cancelled (mode change away from auto, or
\* pause) while it was in flight executes no action and records no result
\* when it completes: only a cycle whose timer is still live steps to the
\* execute stage or to done.
C2_CancelledCycleHasNoEffect ==
    [][\A c \in DOMAIN cycles :
          (cycles'[c].pc # cycles[c].pc /\ cycles'[c].pc \in {"execute", "done"})
              => cycles[c].timer \in timers]_vars

\* C3: once stop() has run, no timer is live, no cycle that was in flight
\* records a result, and no new cycle starts.
C3_NothingAfterStop ==
    [][stopCalls' > 0 =>
          /\ timers' = {}
          /\ autoModeInterval' = NoTimer
          /\ stopCalls > 0 => (history' = history /\ cycles' = cycles)]_vars

\* C3 witness: stop() ran while a cycle was awaiting its fetch or analysis.
C3_Witness == stopCalls > 0 /\ InFlight # {}

\* C31: stop() runs its shutdown sequence at most once, whichever of its
\* triggers fire, and once it has run no input has any effect.
C31_StopRunsAtMostOnce ==
    /\ stopCalls <= 1
    /\ stopCalls > 0 => exited

\* C17: when the mode has changed to a mode other than auto, no auto-mode
\* timer is live; when it has changed to auto, exactly one timer is live,
\* the one the service holds; and a tick fires only in auto mode.
C17_ModeChangeStartsAndCancelsTimer ==
    [][/\ (mode' # mode /\ mode' # "auto")
            => (timers' = {} /\ autoModeInterval' = NoTimer)
       /\ (mode' # mode /\ mode' = "auto")
            => (autoModeInterval' # NoTimer /\ timers' = {autoModeInterval'})
       /\ Len(cycles') > Len(cycles) => mode = "auto"]_vars

\* C17 witness: the mode went from auto, where a cycle had started, to chat,
\* and no timer is live.
C17_Witness ==
    /\ mode = "chat"
    /\ ~exited
    /\ cycles # <<>>
    /\ timers = {}

\* C29: at most one auto-mode timer is live at any time; autoModeInterval is
\* that timer when there is one, and null exactly when there is none.
C29_AtMostOneAutoTimer ==
    /\ Cardinality(timers) <= 1
    /\ autoModeInterval = NoTimer <=> timers = {}
    /\ autoModeInterval # NoTimer => timers = {autoModeInterval}

\* C29 witness: the second timer the service created is the only live one,
\* and the service holds it.
C29_Witness ==
    /\ mode = "auto"
    /\ ~exited
    /\ autoModeInterval = 2
    /\ timers = {2}

\* C30: a pause with no timer running and a resume with a timer running
\* change nothing; every pause leaves no timer, and every resume leaves
\* exactly one, the one the service holds.
C30_PauseResumeIdempotentInverse ==
    [][/\ (pause /\ autoModeInterval = NoTimer) => UNCHANGED chatVars
       /\ (resume /\ autoModeInterval # NoTimer) => UNCHANGED chatVars
       /\ pause => (timers' = {} /\ autoModeInterval' = NoTimer)
       /\ resume => (Cardinality(timers') = 1
                       /\ timers' = {autoModeInterval'})]_vars

\* C30 witness: in auto mode, where entering the mode and a resume or a
\* second entry have created two timers, a pause has left none.
C30_Witness ==
    /\ mode = "auto"
    /\ isRunning
    /\ ~exited
    /\ nextTimer = 3
    /\ autoModeInterval = NoTimer
    /\ timers = {}

\* C18: in every cycle of the auto mode the fetch has completed with data
\* before the analysis starts, the analysis has completed with a result
\* before the execution starts, and nothing is executed or recorded for a
\* cycle whose fetch or analysis gave no result.
C18_StagesInOrder ==
    \A c \in DOMAIN cycles :
        /\ cycles[c].pc = "fetch"
              => (cycles[c].fetched = "pending" /\ cycles[c].analysed = "pending")
        /\ cycles[c].pc = "analyze"
              => (cycles[c].fetched = "data" /\ cycles[c].analysed = "pending")
        /\ cycles[c].analysed # "pending" => cycles[c].fetched = "data"
        /\ cycles[c].pc \in {"execute", "done"}
              => (cycles[c].fetched = "data" /\ cycles[c].analysed = "ok")
        /\ (\E k \in DOMAIN history : history[k].cycle = c)
              => cycles[c].analysed = "ok"

\* C18 witness: a cycle went through its three stages.
C18_Witness ==
    \E c \in DOMAIN cycles :
        /\ cycles[c].pc = "done"
        /\ cycles[c].fetched = "data"
        /\ cycles[c].analysed = "ok"

\* The cycles whose fetch gave no market data: nothing, or a throw.
NoSnapshot == {c \in DOMAIN cycles : cycles[c].fetched \in {"none", "throw"}}

Decided == {c \in DOMAIN monCycles : monCycles[c].pc \notin {"fetch", "ai"}}

C5_HoldContactsNoSink ==
    \A c \in Decided :
        monCycles[c].analysis.action = "HOLD" => monCycles[c].pc \notin TradePcs

\* C20: in every analysis shouldTrade is true exactly when the confidence
\* is at least MIN_CONFIDENCE; with shouldTrade the action is BUY for a
\* positive momentum and SELL for a negative one, and without it HOLD.
C20_ShouldTradePolicy ==
    \A c \in Decided :
        LET analysis == monCycles[c].analysis
        IN /\ analysis.shouldTrade <=> analysis.confidence >= MIN_CONFIDENCE
           /\ (analysis.shouldTrade /\ analysis.momentum > 0)
                 => analysis.action = "BUY"
           /\ (analysis.shouldTrade /\ analysis.momentum < 0)
                 => analysis.action = "SELL"
           /\ ~analysis.shouldTrade => analysis.action = "HOLD"

\* C21: a decision whose momentum is exactly 0 has the action HOLD, whatever
\* its confidence, and its cycle sends nothing to the trade sink.
C21_ZeroMomentumHolds ==
    \A c \in Decided :
        monCycles[c].analysis.momentum = 0
            => /\ monCycles[c].analysis.action = "HOLD"
               /\ monCycles[c].pc \notin TradePcs

\* C22: a BUY or a SELL that reaches the trade sink is sent with the amount
\* BASE_AMOUNT * confidence and the configured slippage, a BUY from SOL to
\* the token and a SELL from the token to SOL.
C22_TradeArguments ==
    \A c \in DOMAIN monCycles :
        LET analysis == monCycles[c].analysis
            trade == monCycles[c].trade
        IN (monCycles[c].pc \in TradePcs /\ analysis.action \in {"BUY", "SELL"})
              => /\ trade.amount = BASE_AMOUNT * analysis.confidence
                 /\ trade.slippage = SLIPPAGE
                 /\ analysis.action = "BUY"
                       => trade.from = "SOL" /\ trade.to = "TOKEN"
                 /\ analysis.action = "SELL"
                       => trade.from = "TOKEN" /\ trade.to = "SOL"

\* C22 witness: a SELL at confidence 0.9 is at the trade sink, from the token
\* to SOL with the amount 0.9 * BASE_AMOUNT.
C22_Witness ==
    \E c \in DOMAIN monCycles :
        /\ monCycles[c].pc = "trade"
        /\ monCycles[c].analysis.action = "SELL"
        /\ monCycles[c].analysis.confidence = 9
        /\ monCycles[c].trade =
              [from |-> "TOKEN", to |-> "SOL",
               amount |-> 9 * BASE_AMOUNT, slippage |-> SLIPPAGE]

\* C23: the confidence of every analysis lies in [0, 1] (0 to 10 tenths),
\* whatever confidence the upstream analysis answered.
C23_ConfidenceInUnitInterval ==
    \A c \in Decided :
        /\ monCycles[c].analysis.confidence >= 0
        /\ monCycles[c].analysis.confidence <= 10

(***************************************************************************)
(* Claims about the retrying executor and the autonomous loops             *)
(***************************************************************************)
NonDecreasing(seq) == \A k \in 1..(Len(seq) - 1) : seq[k] <= seq[k + 1]

\* C6: postTweetWithRetry never makes more than MAX_RETRIES (3) attempts, the
\* delays between its attempts never decrease, and when it gives up it has
\* made exactly 3 attempts, all failed.
C6_AtMostMaxRetriesAttempts ==
    \A c \in TweetSlots :
        /\ tweetCycles[c].attempts <= DefaultRetries
        /\ NonDecreasing(tweetCycles[c].delays)
        /\ tweetCycles[c].pc = "exhausted"
              => /\ tweetCycles[c].attempts = DefaultRetries
                 /\ Len(tweetCycles[c].delays) = DefaultRetries

\* C6 witness: three attempts failed and postTweetWithRetry threw.
C6_Witness ==
    \E c \in TweetSlots :
        /\ tweetCycles[c].pc = "exhausted"
        /\ tweetCycles[c].attempts = 3
        /\ tweetCycles[c].delays = <<5000, 10000, 15000>>

\* C25: the wait after the i-th failed attempt, which precedes attempt i + 1,
\* is baseWaitTime * i (5 s after the first failure, 10 s after the second),
\* and the i-th failure is logged with the attempt number i.
C25_LinearBackoff ==
    \A c \in TweetSlots :
        /\ Len(tweetCycles[c].logged) = Len(tweetCycles[c].delays)
        /\ \A k \in 1..Len(tweetCycles[c].delays) :
              /\ tweetCycles[c].delays[k] = baseWaitTime * k
              /\ tweetCycles[c].logged[k] = k

\* C25 witness: the third attempt is under way after two failures, which
\* were logged as attempts 1 and 2 and followed by waits of 5 s and 10 s.
C25_Witness ==
    \E c \in TweetSlots :
        /\ tweetCycles[c].pc = "attempt"
        /\ tweetCycles[c].i = 2
        /\ tweetCycles[c].delays = <<5000, 10000>>
        /\ tweetCycles[c].logged = <<1, 2>>

\* C34: one call of postTweetWithRetry publishes at most once: it returns on
\* its first successful attempt, which is its last attempt, and it reports
\* failure only if every one of its attempts failed.
C34_PublishesAtMostOnce ==
    \A c \in TweetSlots :
        /\ tweetCycles[c].published <= 1
        /\ tweetCycles[c].published = 1 => tweetCycles[c].pc = "posted"
        /\ tweetCycles[c].pc = "posted"
              => /\ tweetCycles[c].published = 1
                 /\ Len(tweetCycles[c].delays) = tweetCycles[c].attempts - 1
        /\ tweetCycles[c].pc \in {"exhausted", "failed"}
              => /\ tweetCycles[c].published = 0
                 /\ Len(tweetCycles[c].delays) = tweetCycles[c].attempts

\* C34 witness: the second attempt succeeded after the first one failed, and
\* postTweetWithRetry returned.
C34_Witness ==
    \E c \in TweetSlots :
        /\ tweetCycles[c].pc = "posted"
        /\ tweetCycles[c].attempts = 2
        /\ tweetCycles[c].published = 1

\* C35: postTweetWithRetry waits a backoff delay only when another attempt
\* follows: after its final failed attempt it reports the failure without
\* waiting.
C35_NoDelayAfterFinalAttempt ==
    \A c \in TweetSlots :
        /\ tweetCycles[c].pc = "wait"
              => LoopContinues(tweetCycles[c].i + 1, DefaultRetries)
        /\ tweetCycles[c].pc = "exhausted"
              => Len(tweetCycles[c].delays) = tweetCycles[c].attempts - 1

\* C7: when postTweetWithRetry has exhausted its retries, the cycle that
\* called it ends as failed, the process goes on and the tweet timer stays
\* live, so the next tick still runs.
C7_ExhaustedRetriesAreContained ==
    [][\A c \in TweetSlots :
          (tweetCycles[c].pc = "exhausted" /\ tweetCycles'[c].pc # "exhausted")
              => /\ tweetCycles'[c].pc = "failed"
                 /\ tweetCycles'[c].attempts = DefaultRetries
                 /\ ~agentExited'
                 /\ tweetTimer']_vars

\* C7 witness: a cycle failed after three attempts and the process runs on.
C7_Witness ==
    \E c \in TweetSlots :
        /\ tweetCycles[c].pc = "failed"
        /\ tweetCycles[c].attempts = DefaultRetries
        /\ tweetTimer
        /\ ~agentExited

\* C8: a cycle that throws ends neither its loop nor the process.
C8_CycleErrorsAreContained == autoThrew => (~agentExited /\ autoPc # "off")

\* C28: once cleanup() has completed, the timer of scheduleTweets fires no
\* more: no callback of it starts.
C28_NoTickAfterCleanup ==
    [][cleanupDone =>
          \A c \in TweetSlots :
              tweetCycles'[c].pc = "marketData"
                  => tweetCycles[c].pc = "marketData"]_vars

(***************************************************************************)
(* Claims about the cache of the market-data operations                    *)
(***************************************************************************)
\* The calls whose read of the cache has settled on a key that an earlier
\* call had written.
ReadsOfWrittenKeys ==
    {r \in Callers : requests[r].read # "none" /\ requests[r].entry # NoEntry}

\* C9: a read of a key the aggregator wrote is a hit strictly before the
\* entry's expiresAt when the backing store answers, and a miss strictly
\* after expiresAt whatever the state of the backing store.
C9_HitBeforeExpiryMissAfter ==
    \A r \in ReadsOfWrittenKeys :
        /\ (requests[r].readAt < requests[r].entry.expiresAt
               /\ requests[r].read # "error") => requests[r].read = "hit"
        /\ requests[r].readAt > requests[r].entry.expiresAt
               => requests[r].read = "miss"

\* C10: no market-data call ends with an error of the cache's backing
\* store: such a failure counts as a miss and the call goes on to the live
\* fetch.
C10_CacheFailureNeverPropagates ==
    \A r \in Callers :
        /\ requests[r].pc = "threw" => requests[r].cause # "cache"
        /\ requests[r].read # "error"

\* C11: once a get of the backing store has failed, the breaker is open: a
\* later get, made before any time has passed, is answered as a miss and
\* does not call the backing store.
C11_OpenBreakerBypassesStore ==
    \A r \in Callers :
        (requests[r].read # "none" /\ requests[r].afterFailure)
            => (requests[r].read = "miss" /\ ~requests[r].contacted)

\* C12: a call whose live fetch failed while the store still held an
\* earlier snapshot under its key (expired or not) does not throw: it
\* returns that snapshot.
C12_StaleSnapshotOnFetchFailure ==
    \A r \in Callers :
        (requests[r].cause = "fetch" /\ requests[r].entry # NoEntry)
            => /\ requests[r].pc = "returned"
               /\ requests[r].result = requests[r].entry.value.body

\* The staleness ceiling of the specification: twice the time to live.
StalenessCeiling == 2 * CACHE_TTL

\* The time, at the read, since the entry the store held was written.
AgeAtRead(req) == req.readAt - req.entry.writtenAt

\* C13: no call returns from the cache a snapshot older than the staleness
\* ceiling, and a call that finds only a snapshot older than the ceiling
\* and gets no live data fails.
C13_NeverOlderThanCeiling ==
    \A r \in Callers :
        /\ requests[r].read = "hit"
              => AgeAtRead(requests[r]) <= StalenessCeiling
        /\ (requests[r].pc \in {"returned", "threw"}
               /\ requests[r].entry # NoEntry
               /\ AgeAtRead(requests[r]) > StalenessCeiling
               /\ ~(requests[r].fetched /\ requests[r].cause = "none"))
              => requests[r].pc = "threw"

\* C14: every write of a market-data operation gives its entry the time to
\* live CACHE_TTL: the entry expires 300 seconds after the write.
C14_EveryWriteUsesCacheTtl ==
    [][\A k \in Keys :
          store'[k] # store[k]
              => store'[k].expiresAt = store'[k].writtenAt + CACHE_TTL]_vars

\* The calls of getMarketData that have returned a result.
ReturnedMarketData ==
    {r \in Callers : requests[r].op = "marketData" /\ requests[r].pc = "returned"}

\* C15: a call of getMarketData that hits the cache returns the parsed
\* cached snapshot and has made no upstream fetch and no cache write; a call
\* that returns after a miss has fetched upstream and written its result,
\* serialized, under the key marketData:<symbol>.
C15_HitAndMissEffects ==
    /\ \A r \in Callers :
          (requests[r].op = "marketData" /\ requests[r].read = "hit")
              => /\ requests[r].pc = "returned"
                 /\ ~requests[r].fetched
                 /\ ~requests[r].wrote
                 /\ requests[r].result = JSONparse(requests[r].entry.value)
    /\ \A r \in ReturnedMarketData :
          requests[r].read = "miss"
              => /\ requests[r].fetched
                 /\ requests[r].wrote
                 /\ store[cacheKey("marketData", requests[r].symbol)].value
                       = JSONstringify(requests[r].result)

\* C15 witness: a call of getMarketData returned, from the cache, a snapshot
\* that an earlier call had fetched.
C15_Witness ==
    \E r \in ReturnedMarketData :
        /\ requests[r].read = "hit"
        /\ requests[r].result.capturedAt < requests[r].readAt

(***************************************************************************)
(* Claims about calculateConfidenceLevel                                   *)
(***************************************************************************)
\* The volume and the liquidity of the last call as numbers: an absent
\* liquidity counts as 0, and an absent volume exceeds no threshold.
CallVolume == IF levelCall.tradeData.u THEN 0 ELSE levelCall.tradeData.v
CallLiquidity ==
    IF levelCall.dexData.shape = "usd" THEN levelCall.dexData.usd ELSE 0

\* C16: the confidenceLevel is high iff volume > 100000 and liquidity >
\* 50000, otherwise medium iff volume > 10000 and liquidity > 10000,
\* otherwise low; the comparisons are strict.
C16_ConfidenceLevelThresholds ==
    levelCall.called =>
        LET high == CallVolume > 100000 /\ CallLiquidity > 50000
            medium == ~high /\ CallVolume > 10000 /\ CallLiquidity > 10000
        IN /\ (levelCall.level = "high") <=> high
           /\ (levelCall.level = "medium") <=> medium
           /\ (levelCall.level = "low") <=> (~high /\ ~medium)

\* C16 witness: a volume of 150000 with a liquidity of 60000 gave high.
C16_Witness ==
    /\ levelCall.called
    /\ levelCall.tradeData = Val(150000)
    /\ levelCall.dexData = [shape |-> "usd", usd |-> 60000]
    /\ levelCall.level = "high"

(***************************************************************************)
(* Claims about the token providers                                        *)
(***************************************************************************)
\* C24: a market-data request for a symbol, made while the provider of the
\* price service holds the address of that symbol, fetches, returns and
\* caches data of that symbol, whatever other requests interleave with it.
C24_RequestGetsDataOfItsSymbol ==
    \A k \in MarketCommands :
        (marketCalls[k].pc \in {"fetch", "set", "returned"}
           /\ marketCalls[k].addressAtCall = marketCalls[k].symbol
           /\ marketCalls[k].result # "null")
            => /\ marketCalls[k].result \in {"none", marketCalls[k].symbol}
               /\ marketCalls[k].fetchedFor \in
                     {NoAddress, marketCalls[k].symbol}

(***************************************************************************)
(* Claims about the numeric fields of a snapshot                           *)
(***************************************************************************)
\* C26: every numeric field of a snapshot built from the token data is a
\* number, and a field whose upstream value is missing is 0.
C26_MissingNumbersBecomeZero ==
    mergeCall.op # "none" =>
        LET t == mergeCall.tradeData
            snap == mergeCall.snapshot
        IN /\ ~snap.price.nan /\ ~snap.volume24h.nan
           /\ ~snap.priceChange24h.nan /\ ~snap.marketCap.nan
           /\ t.price.u => snap.price.v = 0
           /\ t.volume_24h_usd.u => snap.volume24h.v = 0
           /\ t.price_change_24h_percent.u => snap.priceChange24h.v = 0
           /\ mergeCall.dexData.shape # "marketCap" => snap.marketCap.v = 0

(***************************************************************************)
(* Claims about startup                                                    *)
(***************************************************************************)
\* C27: with a required environment variable missing, validateEnvironment
\* throws before any service has been initialized or a mode has been
\* started, main never gets past it, and the process ends with the exit code
\* 1; and validateEnvironment throws at no other time.
C27_MissingConfigAbortsStartup ==
    /\ [](startupPc # "boot" /\ envMissing # {}
            => /\ ~servicesInitialized
               /\ startedMode = "none"
               /\ startupPc \in {"load", "validate", "catch", "exited"}
               /\ startupPc = "exited" => exitCode = 1)
    /\ [](startupPc = "catch" /\ configError
            => /\ constructed = {}
               /\ ~servicesInitialized
               /\ startedMode = "none")
    /\ ((startupPc # "boot" /\ envMissing # {}) ~> startupPc = "exited")

(***************************************************************************)
(* Claims about swapSolToToken                                             *)
(***************************************************************************)
\* The amount is valid as the claim states it: 0 < amount <= 1000 SOL, and
\* at least 0.01 SOL when the output is ELONA.
AmountInRange(call) ==
    /\ ~call.amount.nan
    /\ call.amount.v > 0
    /\ call.amount.v <= MaxSwapAmount
    /\ call.outputMint = "ELONA" => call.amount.v >= MinElonaAmount

\* C32: a transaction is signed and sent only after the amount was valid, a
\* quote was obtained, the balance was known and at least the amount, and
\* the transaction was prepared; a call that ended on a failed guard has the
\* status error and has signed nothing.
C32_SignOnlyAfterAllGuards ==
    /\ swapCall.signCalled
          => /\ AmountInRange(swapCall)
             /\ swapCall.quote
             /\ swapCall.wallet.known
             /\ swapCall.wallet.balance >= swapCall.amount.v
             /\ swapCall.prepared
    /\ (swapCall.pc = "returned" /\ ~swapCall.signCalled)
          => swapCall.status = "error"

\* C33: swapSolToToken never throws; a call that has returned has the status
\* error or success, and success exactly when signAndSendTransaction
\* returned a signature.
C33_SwapNeverThrows ==
    /\ ~swapCall.threw
    /\ swapCall.pc = "returned" => swapCall.status \in {"error", "success"}
    /\ swapCall.status = "success" <=> swapCall.signature

\* C33 witness: signAndSendTransaction threw, and the call returned the
\* status error.
C33_Witness ==
    /\ swapCall.pc = "returned"
    /\ swapCall.signCalled
    /\ ~swapCall.signature
    /\ swapCall.status = "error"
    /\ ~swapCall.threw

(***************************************************************************)
(* Claims about MemeAgentInfluencer.initialize                             *)
(***************************************************************************)
\* initializeServices has been run and has settled.
ServicesSettled ==
    \/ "initializeServices" \in {agentInit.completed[k] :
                                    k \in 1..Len(agentInit.completed)}
    \/ agentInit.failedAt = "initializeServices"

\* C36: once initializeServices has run with every service it calls
\* answering, the stream has been set up once: exactly one 'data' handler is
\* registered, so that a stream tweet is handled once and answered at most
\* once.
C36_OneDataHandler ==
    /\ agentInit.dataHandlers <= 1
    /\ (ServicesSettled /\ ~agentInit.externalFailed)
          => agentInit.dataHandlers = 1

\* The steps of initialize before the given one, in order.
StepsBefore(name) ==
    LET k == CHOOSE j \in 1..Len(FiveSteps) : FiveSteps[j] = name
    IN  SubSeq(FiveSteps, 1, k - 1)

\* C37: isInitialized is true only if the five steps completed in order; when
\* a step has failed and initialize has rejected, cleanup has run,
\* isInitialized is false, the error thrown is the one of the failed step,
\* and no later step was executed.
C37_InitializedOnlyAfterAllSteps ==
    /\ agentInit.isInitialized => agentInit.completed = FiveSteps
    /\ agentInit.pc = "rejected"
          => /\ agentInit.cleanupCalls > 0
             /\ ~agentInit.isInitialized
             /\ agentInit.thrown = agentInit.failedAt
             /\ agentInit.completed = StepsBefore(agentInit.failedAt)

(***************************************************************************)
(* Claims about the mode prompts                                           *)
(***************************************************************************)
\* The valid choices, as the claim gives them.
ValidChoice(data) ==
    \E word \in {<<"1">>, <<"c", "h", "a", "t">>, <<"2">>,
                 <<"a", "u", "t", "o">>} :
        toLowerCase(trim(data)) = word

\* C38: a mode prompt resolves only with chat or auto, and with the mode the
\* last input names; while every input was invalid the selection is pending
\* with a listener on stdin, and each invalid input was answered by a new
\* prompt.
C38_ModeOnlyFromValidChoice ==
    LET n == Len(modePrompt.choices) IN
    /\ modePrompt.pc = "resolved"
          => /\ modePrompt.result \in {"chat", "auto"}
             /\ n > 0
             /\ ValidChoice(modePrompt.choices[n])
             /\ modePrompt.result = "chat"
                   <=> toLowerCase(trim(modePrompt.choices[n]))
                          \in {<<"1">>, <<"c", "h", "a", "t">>}
    /\ (modePrompt.fn # "none"
          /\ \A k \in 1..n : ~ValidChoice(modePrompt.choices[k]))
          => /\ modePrompt.pc = "pending"
             /\ modePrompt.listening
             /\ modePrompt.prompts = n + 1

(***************************************************************************)
(* Claims about the commands of the modes                                  *)
(***************************************************************************)
NamesOf(list) == {list[k] : k \in 1..Len(list)}

\* The commands a config had are still there, at their places.
KeepsCommands(before, after) ==
    before.registered
       => /\ after.registered
          /\ Len(after.commands) >= Len(before.commands)
          /\ SubSeq(after.commands, 1, Len(before.commands)) = before.commands

\* C39: once the ChatService is constructed, the Twitter commands are among
\* the commands of chat mode and not among those of auto mode; and a call of
\* addCommands leaves every command that was registered for the mode
\* registered.
C39_TwitterCommandsInChatMode ==
    /\ chatBuilt
          => /\ NamesOf(twitterCommands.list)
                   \subseteq NamesOf(modeConfigs["chat"].commands)
             /\ NamesOf(twitterCommands.list)
                   \cap NamesOf(modeConfigs["auto"].commands) = {}
    /\ lastAdd.mode # "none"
          => KeepsCommands(lastAdd.before, modeConfigs[lastAdd.mode])

====
